---- MODULE Spec2Model ----
(***************************************************************************)
(* The Manifold Web node: the tick-driven simulation (simulation.rs), the  *)
(* agent handoff protocol and the round-based state-hash vote              *)
(* (network.rs, consensus.rs), as a state machine over a small network of  *)
(* nodes that exchange request/response messages; with the observer's      *)
(* dead-reckoning engine (dead_reckoning.rs) and the contracts' gas meter  *)
(* and tokens (runtime.rs, governance/token.rs, templates/simple_token.rs) *)
(* as components of their own.                                             *)
(***************************************************************************)
EXTENDS Integers, Sequences, FiniteSets, TLC

\* ------------------------------------------------------------------ bounds
NumNodes == 4
NumVoters == 2
NumSim == 3
MaxTick == 3
MaxQuorumTick == 2
MaxSimTick == 1
MaxAgents == 2
NumHandoff == 2
MaxInFlight == 2
NumLoop == 2
MaxLoopTick == 2
MaxParams == 2
MaxCheck == 7
MaxRoundCheck == 6

Nodes == 1..NumNodes
VoteNodes == 1..NumVoters
VotePeers == 1..(NumVoters + 1)
QuorumNodes == 1..(NumNodes - 1)
SimNodes == 1..NumSim
DetNodes == {1, 2}

\* ------------------------------------------------------- program constants
SECTOR_SIZE == 100
GENESIS_SECTOR == 0
PARAM_LEN == 32
SPAWN_LOW == -100
SPAWN_HIGH == 100
HASH_X == 73856093
HASH_Y == 19349663
HASH_Z == 83492791
RATE_UNIT == 1000

\* -------------------------------------------------------------- primitives
\* u64::to_le_bytes for the values the model reaches (all below 2^31).
RECURSIVE le_bytes(_, _)
le_bytes(n, width) ==
    IF width = 0 THEN <<>> ELSE <<n % 256>> \o le_bytes(n \div 256, width - 1)

\* floor(log2 a) for a >= 1.
RECURSIVE ilog2(_)
ilog2(a) == IF a <= 1 THEN 0 ELSE 1 + ilog2(a \div 2)

RECURSIVE pow2(_)
pow2(e) == IF e = 0 THEN 1 ELSE 2 * pow2(e - 1)

\* f32::to_le_bytes of an integer-valued f32 (|x| < 2^24, exactly
\* representable): sign bit, biased exponent, 23-bit mantissa.
f32_le_bytes(x) ==
    IF x = 0 THEN <<0, 0, 0, 0>>
    ELSE LET s    == IF x < 0 THEN 1 ELSE 0
             a    == IF x < 0 THEN -x ELSE x
             e    == ilog2(a)
             mant == (a - pow2(e)) * pow2(23 - e)
             bexp == e + 127
         IN  << mant % 256,
                (mant \div 256) % 256,
                (bexp % 2) * 128 + (mant \div 65536),
                s * 128 + (bexp \div 2) >>

\* Bitwise XOR of two i64 values in two's complement (sign-extended).
RECURSIVE xor_i64(_, _)
xor_i64(a, b) ==
    IF a \in {0, -1} /\ b \in {0, -1}
    THEN (IF a = b THEN 0 ELSE -1)
    ELSE 2 * xor_i64(a \div 2, b \div 2) + (((a % 2) + (b % 2)) % 2)

\* `as u64` of an i64: the same 64 bits, held as four 16-bit limbs, most
\* significant first (the sign extends into the upper limbs).
as_u64(h) ==
    << (((h \div 65536) \div 65536) \div 65536) % 65536,
       ((h \div 65536) \div 65536) % 65536,
       (h \div 65536) % 65536,
       h % 65536 >>

\* Lexicographic order on byte strings (String::cmp).
RECURSIVE str_less(_, _)
str_less(s, t) ==
    IF t = <<>> THEN FALSE
    ELSE IF s = <<>> THEN TRUE
    ELSE IF Head(s) # Head(t) THEN Head(s) < Head(t)
    ELSE str_less(Tail(s), Tail(t))

RECURSIVE concat_all(_)
concat_all(ss) == IF ss = <<>> THEN <<>> ELSE Head(ss) \o concat_all(Tail(ss))

SeqToSet(s) == {s[i] : i \in 1..Len(s)}

\* All orderings of a finite set, as sequences without repetition.
Orderings(S) ==
    {o \in [1..Cardinality(S) -> S] : \A i, j \in 1..Cardinality(S) : i # j => o[i] # o[j]}

VARIABLES known_peers, consensus_round, pending_votes, tick_count, agents,
          local_sectors, sector_ownership, pending_handoffs,
          proposals, votes, handoffs, responses, published, proposed, minted,
          pc, chk, evo, observer, sect, token, simple, meter, dao

vars == <<known_peers, consensus_round, pending_votes, tick_count, agents,
          local_sectors, sector_ownership, pending_handoffs,
          proposals, votes, handoffs, responses, published, proposed, minted,
          pc, chk, evo, observer, sect, token, simple, meter, dao>>
\* ------------------------------------------------------------- data values
AgentIds == {<<64 + i>> : i \in 1..MaxAgents}
Cids == {<<81>>}
Energies == {100}
Origin == <<0, 0, 0>>
West == <<-1, 0, 0>>
Positions == {Origin, West, <<99, 99, 99>>, <<0, -100, 0>>}
\* rng.gen_range(-100.0..100.0) on each axis; the positions the scenarios spawn at.
in_spawn_range(position) ==
    \A i \in 1..3 : SPAWN_LOW <= position[i] /\ position[i] < SPAWN_HIGH
SpawnPositions == {p \in {Origin, West} : in_spawn_range(p)}
ZeroVec == <<0, 0, 0>>
DetEnergies == {0, 50, 100}
DetPositions == {p \in Positions : in_spawn_range(p)}

\* ------------------------------------------------------------ SectorManager
position_to_sector(position) ==
    LET x_grid == position[1] \div SECTOR_SIZE
        y_grid == position[2] \div SECTOR_SIZE
        z_grid == position[3] \div SECTOR_SIZE
    IN  as_u64(xor_i64(xor_i64(x_grid * HASH_X, y_grid * HASH_Y), z_grid * HASH_Z))

Sector0 == as_u64(GENESIS_SECTOR)
SectorWest == position_to_sector(West)
ClaimableSectors == {SectorWest}

is_local_sector(n, sector_id) == sector_id \in local_sectors[n]

get_sector_owner(n, sector_id) ==
    IF sector_id \in DOMAIN sector_ownership[n]
    THEN sector_ownership[n][sector_id] ELSE 0

prepare_handoff(agent, target_sector, source_node) ==
    [agent |-> agent, from_sector |-> agent.sector_id, to_sector |-> target_sector,
     timestamp |-> 0, source_node |-> source_node]

\* Agent::new, then the sector assignment of spawn_agent.
new_agent(id, cid, initial_energy, position) ==
    [id |-> id,
     genome |-> [cid |-> cid, parameters |-> [i \in 1..PARAM_LEN |-> 0]],
     energy |-> initial_energy, position |-> position,
     velocity |-> ZeroVec, acceleration |-> ZeroVec,
     sector_id |-> position_to_sector(position), created_at |-> 0, generation |-> 0]

\* ---------------------------------------------------------- state hashing
RECURSIVE insert_id(_, _)
insert_id(x, s) ==
    IF s = <<>> THEN <<x>>
    ELSE IF str_less(x, Head(s)) THEN <<x>> \o s
    ELSE <<Head(s)>> \o insert_id(x, Tail(s))

unsorted_ids(s) == s

RECURSIVE sort_ids(_)
sort_ids(s) == IF s = <<>> THEN <<>> ELSE insert_id(Head(s), sort_ids(Tail(s)))

agent_bytes(agent_id, agent) ==
    agent_id \o le_bytes(agent.energy, 8)
      \o f32_le_bytes(agent.position[1]) \o f32_le_bytes(agent.position[2])
      \o f32_le_bytes(agent.position[3])
      \o agent.genome.cid \o agent.genome.parameters

\* The bytes fed to SHA-256, for a store whose keys() iterate in key_order.
\* The digest is held as its preimage (SHA-256 taken as injective).
state_hash_of(tick, store, key_order) ==
    LET ids == sort_ids(key_order)
    IN  le_bytes(tick, 8) \o concat_all([i \in 1..Len(ids) |-> agent_bytes(ids[i], store[ids[i]])])

calculate_state_hash(n) ==
    state_hash_of(tick_count[n], agents[n], CHOOSE o \in Orderings(DOMAIN agents[n]) : TRUE)

\* --------------------------------------------------------------- consensus
check_non_strict(agree_count, total_count, required_peers) ==
    IF total_count < required_peers THEN [kind |-> "Pending"]
    ELSE IF agree_count >= (required_peers * 2) \div 3
         THEN [kind |-> "Achieved", agree_count |-> agree_count, total_count |-> total_count]
         ELSE [kind |-> "Failed", agree_count |-> agree_count, total_count |-> total_count]

ConsensusResult_check(agree_count, total_count, required_peers) ==
    IF total_count < required_peers THEN [kind |-> "Pending"]
    ELSE LET threshold == (required_peers * 2) \div 3
         IN  IF agree_count > threshold
             THEN [kind |-> "Achieved", agree_count |-> agree_count, total_count |-> total_count]
             ELSE [kind |-> "Failed", agree_count |-> agree_count, total_count |-> total_count]

RECURSIVE insert_peer(_, _)
insert_peer(x, s) ==
    IF s = <<>> THEN <<x>>
    ELSE IF x < Head(s) THEN <<x>> \o s
    ELSE <<Head(s)>> \o insert_peer(x, Tail(s))

unsorted_peers(s) == s

RECURSIVE sort_peers(_)
sort_peers(s) == IF s = <<>> THEN <<>> ELSE insert_peer(Head(s), sort_peers(Tail(s)))

\* The leader a node computes in initiate_consensus_round.
round_leader(known, self, round) ==
    LET all_peers == sort_peers(Append(known, self))
        leader_index == round % Len(all_peers)
    IN  all_peers[leader_index + 1]

NoTally == [kind |-> "None"]

\* No genome evolved yet.
NoGenome == [cid |-> <<>>, parameters |-> <<>>]
NoEvolve == [parent_a |-> [genome |-> NoGenome], parent_b |-> [genome |-> NoGenome],
             mutation_rate |-> 0, chosen |-> <<>>, offspring |-> NoGenome, applied |-> FALSE]

\* ------------------------------------------------------- evolve_offspring
\* *byte ^= 1 << bit_position
flip_bit(byte, bit_position) ==
    IF (byte \div pow2(bit_position)) % 2 = 1
    THEN byte - pow2(bit_position) ELSE byte + pow2(bit_position)

\* One byte after the mutation loop; mutation_rate is in units of
\* 1/RATE_UNIT, and rng.gen::<f64>() lies in [0, 1).
byte_outcomes(byte, mutation_rate) ==
    (IF mutation_rate < RATE_UNIT THEN {byte} ELSE {})
      \cup (IF mutation_rate > 0 THEN {flip_bit(byte, b) : b \in 0..7} ELSE {})

RECURSIVE mutations(_, _)
mutations(params, mutation_rate) ==
    IF params = <<>> THEN {<<>>}
    ELSE {<<h>> \o t : h \in byte_outcomes(Head(params), mutation_rate),
                       t \in mutations(Tail(params), mutation_rate)}

\* The offspring parameters before mutation, for a crossover point.
crossover_skipping_byte(params_a, params_b, crossover_point) ==
    SubSeq(params_a, 1, crossover_point) \o SubSeq(params_b, crossover_point + 2, Len(params_b))

crossover(params_a, params_b, crossover_point) ==
    LET offspring_params ==
            SubSeq(params_a, 1, crossover_point)
              \o SubSeq(params_b, crossover_point + 1, Len(params_b))
    IN  IF Len(params_a) > crossover_point + Len(params_b) - crossover_point
        THEN offspring_params \o SubSeq(params_a, Len(params_b) + 1, Len(params_a))
        ELSE offspring_params

min_len(a, b) == IF Len(a) < Len(b) THEN Len(a) ELSE Len(b)

\* Simulation::evolve_offspring: every genome the call can return, with the
\* crossover point it drew (none on the early return).
evolve_offspring(parent_a, parent_b, mutation_rate) ==
    LET params_a == parent_a.genome.parameters
        params_b == parent_b.genome.parameters
    IN  IF params_a = <<>> \/ params_b = <<>>
        THEN {[chosen |-> <<>>,
               genome |-> [cid |-> parent_a.genome.cid, parameters |-> params_a]]}
        ELSE UNION {{[chosen |-> <<k>>,
                      genome |-> [cid |-> parent_a.genome.cid, parameters |-> q]] :
                        q \in mutations(crossover(params_a, params_b, k), mutation_rate)} :
                    k \in 0..(min_len(params_a, params_b) - 1)}

\* ---------------------------------------------------------------- f32 values
\* An f32 is held in fixed point, as v units of 1/FIXED, or is NaN.
FIXED == 10
F32(v) == [nan |-> FALSE, v |-> v]
NaN == [nan |-> TRUE, v |-> 0]
F32_ZERO == F32(0)
F32_ONE == F32(FIXED)

\* The IEEE comparisons: false whenever an operand is NaN.
f32_lt(a, b) == ~a.nan /\ ~b.nan /\ a.v < b.v
f32_gt(a, b) == f32_lt(b, a)

f32_add(a, b) == IF a.nan \/ b.nan THEN NaN ELSE F32(a.v + b.v)
f32_sub(a, b) == IF a.nan \/ b.nan THEN NaN ELSE F32(a.v - b.v)
f32_mul(a, b) == IF a.nan \/ b.nan THEN NaN ELSE F32((a.v * b.v) \div FIXED)

\* f32::clamp: `if self < min { min } else if self > max { max } else { self }`.
f32_clamp(x, min, max) ==
    IF f32_lt(x, min) THEN min ELSE IF f32_gt(x, max) THEN max ELSE x

\* f32::max: the other operand when one is NaN.
f32_max(x, other) ==
    IF x.nan THEN other ELSE IF other.nan THEN x ELSE IF x.v < other.v THEN other ELSE x

\* glam::Vec3 with f32 components.
Vec3(x, y, z) == <<F32(x * FIXED), F32(y * FIXED), F32(z * FIXED)>>
Vec3_ZERO == Vec3(0, 0, 0)
vec_add(p, q) == [i \in 1..3 |-> f32_add(p[i], q[i])]
vec_sub(p, q) == [i \in 1..3 |-> f32_sub(p[i], q[i])]
vec_scale(p, s) == [i \in 1..3 |-> f32_mul(p[i], s)]

\* Vec3::lerp.
lerp(p, rhs, s) == vec_add(p, vec_scale(vec_sub(rhs, p), s))

\* Vec3::distance, squared (in units of 1/FIXED^2), or NaN.
distance_squared(p, q) ==
    LET d == vec_sub(p, q)
    IN  IF \E i \in 1..3 : d[i].nan THEN NaN
        ELSE [nan |-> FALSE, v |-> d[1].v * d[1].v + d[2].v * d[2].v + d[3].v * d[3].v]

\* `distance > max_error` for max_error >= 0 or NaN, compared on the squares.
distance_exceeds(p, q, max_error) ==
    LET d2 == distance_squared(p, q)
    IN  ~d2.nan /\ ~max_error.nan /\ (max_error.v < 0 \/ d2.v > max_error.v * max_error.v)

\* ----------------------------------------------------------- PredictedAgent
\* No agent observed yet.
NoAgent == [exists |-> FALSE,
            authoritative_position |-> Vec3_ZERO, authoritative_velocity |-> Vec3_ZERO,
            authoritative_acceleration |-> Vec3_ZERO,
            predicted_position |-> Vec3_ZERO, predicted_velocity |-> Vec3_ZERO]

PredictedAgent_new(position, velocity, acceleration) ==
    [exists |-> TRUE,
     authoritative_position |-> position, authoritative_velocity |-> velocity,
     authoritative_acceleration |-> acceleration,
     predicted_position |-> position, predicted_velocity |-> velocity]

update_authoritative(agent, position, velocity, acceleration, blend_factor) ==
    [agent EXCEPT
        !.predicted_position = lerp(@, position, f32_clamp(blend_factor, F32_ZERO, F32_ONE)),
        !.authoritative_position = position,
        !.authoritative_velocity = velocity,
        !.authoritative_acceleration = acceleration,
        !.predicted_velocity = velocity]

\* PredictedAgent::predict after dt whole seconds since last_update.
predict(agent, dt) ==
    LET t == F32(dt * FIXED)
        half == F32(FIXED \div 2)
    IN  [agent EXCEPT
            !.predicted_position =
                vec_add(vec_add(agent.authoritative_position,
                                vec_scale(agent.authoritative_velocity, t)),
                        vec_scale(vec_scale(vec_scale(agent.authoritative_acceleration, half), t), t)),
            !.predicted_velocity =
                vec_add(agent.authoritative_velocity,
                        vec_scale(agent.authoritative_acceleration, t))]

\* PredictedAgent::prediction_error / needs_correction.
needs_correction(agent, max_error) ==
    distance_exceeds(agent.predicted_position, agent.authoritative_position, max_error)

\* ------------------------------------------------------------ DeadReckoning
DeadReckoning_new ==
    [blend_factor |-> F32((3 * FIXED) \div 10), smoothing_alpha |-> F32((2 * FIXED) \div 10),
     max_error_threshold |-> F32(10 * FIXED)]

with_params(blend_factor, smoothing_alpha, max_error_threshold) ==
    [blend_factor |-> f32_clamp(blend_factor, F32_ZERO, F32_ONE),
     smoothing_alpha |-> f32_clamp(smoothing_alpha, F32_ZERO, F32_ONE),
     max_error_threshold |-> f32_max(max_error_threshold, F32_ZERO)]

\* DeadReckoning::update_agent.
update_agent(dr, agent, position, velocity, acceleration) ==
    LET blend == IF needs_correction(agent, dr.max_error_threshold)
                 THEN F32_ONE ELSE dr.blend_factor
    IN  update_authoritative(agent, position, velocity, acceleration, blend)

set_blend_factor(dr, factor) ==
    [dr EXCEPT !.blend_factor = f32_clamp(factor, F32_ZERO, F32_ONE)]

set_smoothing_alpha(dr, alpha) ==
    [dr EXCEPT !.smoothing_alpha = f32_clamp(alpha, F32_ZERO, F32_ONE)]

set_error_threshold(dr, threshold) ==
    [dr EXCEPT !.max_error_threshold = f32_max(threshold, F32_ZERO)]

\* ------------------------------------------------- Agent::calculate_sector
\* (coordinate / sector_size).floor() as i64, for an integer coordinate.
floor_cell(coordinate, sector_size) ==
    IF coordinate >= 0 THEN coordinate \div sector_size
    ELSE -(((-coordinate) + sector_size - 1) \div sector_size)

calculate_sector_truncating(agent, sector_size) ==
    LET cell(c) == IF c >= 0 THEN c \div sector_size ELSE -((-c) \div sector_size)
    IN  as_u64(xor_i64(xor_i64(cell(agent.position[1]) * HASH_X, cell(agent.position[2]) * HASH_Y),
                       cell(agent.position[3]) * HASH_Z))

calculate_sector(agent, sector_size) ==
    LET x_grid == floor_cell(agent.position[1], sector_size)
        y_grid == floor_cell(agent.position[2], sector_size)
        z_grid == floor_cell(agent.position[3], sector_size)
    IN  as_u64(xor_i64(xor_i64(x_grid * HASH_X, y_grid * HASH_Y), z_grid * HASH_Z))

\* No position looked up yet.
NoSector == [position |-> Origin, applied |-> FALSE, manager_id |-> Sector0, agent_id |-> Sector0]

\* ----------------------------------------------------------------- u64
\* The contracts' u64 arithmetic at a word of WordBits bits, so that
\* overflow is within reach of small amounts.
WordBits == 3
U64_MAX == pow2(WordBits) - 1
U64 == 0..U64_MAX

\* ------------------------------------------------------------- GasMeter
GasMeter_new(limit) == [limit |-> limit, consumed |-> 0]

\* GasMeter::consume with wrapping_add in place of checked_add.
consume_wrapping(gas, amount) ==
    LET new_total == (gas.consumed + amount) % (U64_MAX + 1)
    IN  IF new_total > gas.limit
        THEN [result |-> "OutOfGas", gas |-> gas]
        ELSE [result |-> "Ok", gas |-> [gas EXCEPT !.consumed = new_total]]

\* GasMeter::consume: the result and the meter after the call.
consume(gas, amount) ==
    IF gas.consumed + amount > U64_MAX
    THEN [result |-> "OutOfGas", gas |-> gas]
    ELSE LET new_total == gas.consumed + amount
         IN  IF new_total > gas.limit
             THEN [result |-> "OutOfGas", gas |-> gas]
             ELSE [result |-> "Ok", gas |-> [gas EXCEPT !.consumed = new_total]]

\* GasMeter::remaining (saturating_sub).
remaining(gas) == IF gas.limit >= gas.consumed THEN gas.limit - gas.consumed ELSE 0

\* No meter call made yet.
NoMeter == [gas |-> GasMeter_new(0), amount |-> 0, result |-> "None"]

\* -------------------------------------------------------- GovernanceToken
\* Gas charges, in units of 500 gas.
INSTANTIATE_GAS == 2
EXECUTE_GAS == 1
MINT_GAS == 2

Addresses == {"dao", "alice"}
\* The address that deploys the token and is meant to mint.
DAO == "dao"
Nodes_reputed == {"node"}
Agents_credited == {"agent"}

\* A u64 result that does not fit the word: a panic when overflow checks are
\* compiled in (debug), a wrap otherwise (release).
overflows(x) == x > U64_MAX \/ x < 0
wrap(x) == x % (U64_MAX + 1)

NoTokenState ==
    [config |-> [max_supply |-> 0, initial_supply |-> 0],
     total_supply |-> 0, total_minted |-> 0,
     balances |-> [a \in Addresses |-> 0],
     allowances |-> [o \in Addresses |-> [sp \in Addresses |-> 0]],
     node_reputation |-> [n \in Nodes_reputed |-> 0],
     agent_contributions |-> [a \in Agents_credited |-> 0]]

NoToken == [initialized |-> FALSE, overflow_checks |-> FALSE, state |-> NoTokenState,
            kind |-> "None", sender |-> "", amount |-> 0, outcome |-> "None", calls |-> 0]

TokenState_new(config, initial_owner) ==
    [NoTokenState EXCEPT
        !.config = config,
        !.total_supply = config.initial_supply,
        !.total_minted = config.initial_supply,
        !.balances = [@ EXCEPT ![initial_owner] = config.initial_supply]]

token_transfer(state, from, to, amount, checks) ==
    LET from_balance == state.balances[from]
    IN  IF from_balance < amount
        THEN [outcome |-> "Insufficient balance", state |-> state]
        ELSE LET debited == [state.balances EXCEPT ![from] = from_balance - amount]
                 credit == debited[to] + amount
             IN  IF checks /\ overflows(credit)
                 THEN [outcome |-> "Panic", state |-> state]
                 ELSE [outcome |-> "Ok",
                       state |-> [state EXCEPT !.balances = [debited EXCEPT ![to] = wrap(credit)]]]

token_approve(state, owner, spender, amount) ==
    [outcome |-> "Ok", state |-> [state EXCEPT !.allowances[owner][spender] = amount]]

token_transfer_from(state, spender, owner, recipient, amount, checks) ==
    LET allowance == state.allowances[owner][spender]
    IN  IF allowance < amount
        THEN [outcome |-> "Insufficient allowance", state |-> state]
        ELSE LET moved == token_transfer(state, owner, recipient, amount, checks)
             IN  IF moved.outcome # "Ok" THEN [outcome |-> moved.outcome, state |-> state]
                 ELSE [outcome |-> "Ok",
                       state |-> [moved.state EXCEPT
                                     !.allowances[owner][spender] = allowance - amount]]

token_mint(state, recipient, amount, checks) ==
    LET total == state.total_minted + amount
        balance == state.balances[recipient] + amount
        supply == state.total_supply + amount
    IN  IF checks /\ overflows(total) THEN [outcome |-> "Panic", state |-> state]
        ELSE IF wrap(total) > state.config.max_supply
        THEN [outcome |-> "Exceeds max supply", state |-> state]
        ELSE IF checks /\ (overflows(balance) \/ overflows(supply))
        THEN [outcome |-> "Panic", state |-> state]
        ELSE [outcome |-> "Ok",
              state |-> [state EXCEPT !.balances[recipient] = wrap(balance),
                                      !.total_supply = wrap(supply),
                                      !.total_minted = wrap(total)]]

token_burn(state, from, amount, checks) ==
    LET balance == state.balances[from]
        supply == state.total_supply - amount
    IN  IF balance < amount THEN [outcome |-> "Insufficient balance", state |-> state]
        ELSE IF checks /\ overflows(supply) THEN [outcome |-> "Panic", state |-> state]
        ELSE [outcome |-> "Ok",
              state |-> [state EXCEPT !.balances[from] = balance - amount,
                                      !.total_supply = wrap(supply)]]

record_contribution(state, agent_id, contribution, checks) ==
    LET total == state.agent_contributions[agent_id] + contribution
    IN  IF checks /\ overflows(total) THEN [outcome |-> "Panic", state |-> state]
        ELSE [outcome |-> "Ok",
              state |-> [state EXCEPT !.agent_contributions[agent_id] = wrap(total)]]

\* The match of GovernanceToken::execute on the message.
token_dispatch(state, sender, msg, checks) ==
    CASE msg.kind = "Transfer" ->
            token_transfer(state, sender, msg.recipient, msg.amount, checks)
      [] msg.kind = "Approve" ->
            token_approve(state, sender, msg.spender, msg.amount)
      [] msg.kind = "TransferFrom" ->
            token_transfer_from(state, sender, msg.owner, msg.recipient, msg.amount, checks)
      [] msg.kind = "Mint" ->
            token_mint(state, msg.recipient, msg.amount, checks)
      [] msg.kind = "Burn" ->
            token_burn(state, sender, msg.amount, checks)
      [] msg.kind = "UpdateReputation" ->
            [outcome |-> "Ok", state |-> [state EXCEPT !.node_reputation[msg.node] = msg.amount]]
      [] msg.kind = "RecordContribution" ->
            record_contribution(state, msg.agent_id, msg.amount, checks)

\* GovernanceToken::execute with a context of the given sender and gas limit:
\* the outcome and the state in storage after the call.
token_execute(tok, sender, gas_limit, msg) ==
    LET charged == consume(GasMeter_new(gas_limit), EXECUTE_GAS)
    IN  IF charged.result # "Ok" THEN [outcome |-> "OutOfGas", state |-> tok.state]
        ELSE IF ~tok.initialized THEN [outcome |-> "InvalidState", state |-> tok.state]
        ELSE LET done == token_dispatch(tok.state, sender, msg, tok.overflow_checks)
             IN  IF done.outcome # "Ok" THEN [outcome |-> done.outcome, state |-> tok.state]
                 ELSE IF msg.kind = "Mint" /\ consume(charged.gas, MINT_GAS).result # "Ok"
                 THEN [outcome |-> "OutOfGas", state |-> tok.state]
                 ELSE done

\* ------------------------------------------------------ SimpleTokenTemplate
\* The storage keys "total_supply", "balance:{address}" and
\* "allowance:{owner}:{spender}"; a key never written reads as 0.
NoSimple == [instantiated |-> FALSE, overflow_checks |-> FALSE, total_supply |-> 0,
             balances |-> [a \in Addresses |-> 0],
             allowances |-> [o \in Addresses |-> [sp \in Addresses |-> 0]],
             kind |-> "None", sender |-> "", amount |-> 0, outcome |-> "None", calls |-> 0]

get_balance(st, address) == st.balances[address]
get_allowance(st, owner, spender) == st.allowances[owner][spender]

\* SimpleTokenTemplate::transfer: the outcome and the storage after the call.
\* Each set_json writes through to storage, so the debit stays when the
\* credit panics.
simple_transfer(st, from, to, amount) ==
    LET from_balance == get_balance(st, from)
    IN  IF from_balance < amount THEN [outcome |-> "InsufficientFunds", st |-> st]
        ELSE LET to_balance == get_balance(st, to)
                 debited == [st EXCEPT !.balances[from] = from_balance - amount]
                 credit == to_balance + amount
             IN  IF st.overflow_checks /\ overflows(credit)
                 THEN [outcome |-> "Panic", st |-> debited]
                 ELSE [outcome |-> "Ok", st |-> [debited EXCEPT !.balances[to] = wrap(credit)]]

simple_approve(st, owner, spender, amount) ==
    [outcome |-> "Ok", st |-> [st EXCEPT !.allowances[owner][spender] = amount]]

simple_transfer_from(st, spender, from, to, amount) ==
    LET allowance == get_allowance(st, from, spender)
    IN  IF allowance < amount THEN [outcome |-> "Unauthorized", st |-> st]
        ELSE LET moved == simple_transfer(st, from, to, amount)
             IN  IF moved.outcome # "Ok" THEN moved
                 ELSE [outcome |-> "Ok",
                       st |-> [moved.st EXCEPT !.allowances[from][spender] = allowance - amount]]

\* SimpleTokenTemplate::execute.
simple_execute(st, sender, msg) ==
    CASE msg.kind = "Transfer" -> simple_transfer(st, sender, msg.to, msg.amount)
      [] msg.kind = "Approve" -> simple_approve(st, sender, msg.spender, msg.amount)
      [] msg.kind = "TransferFrom" ->
            simple_transfer_from(st, sender, msg.from, msg.to, msg.amount)

\* -------------------------------------------------------------- ManifoldDAO
\* Gas charged by instantiate and by execute, in units of 500 gas; the placeholder voting
\* weight, in units of 1000.
DAO_INSTANTIATE_GAS == 4
DAO_EXECUTE_GAS == 2
VOTE_WEIGHT == 1

NoProposal ==
    [id |-> 0, proposer |-> "", start_block |-> 0, end_block |-> 0, execution_block |-> 0,
     votes_for |-> 0, votes_against |-> 0, votes_abstain |-> 0,
     status |-> "Pending", executed |-> FALSE, canceled |-> FALSE]

\* DAOState::new.
DAOState_new(config) ==
    [config |-> config, proposal_count |-> 0, proposals |-> <<>>,
     votes |-> <<>>, total_token_supply |-> 0]

\* No DAO deployed yet; events is the record of the Queue and Execute
\* messages that succeeded.
NoDao == [state |-> DAOState_new([voting_period |-> 0, execution_delay |-> 0,
                                  quorum_percentage |-> 0]),
          initialized |-> FALSE, overflow_checks |-> FALSE, block_height |-> 0,
          events |-> {}]

get_proposal_status(proposal, state, current_block) ==
    IF proposal.canceled THEN "Canceled"
    ELSE IF proposal.executed THEN "Executed"
    ELSE IF current_block < proposal.start_block THEN "Pending"
    ELSE IF current_block <= proposal.end_block THEN "Active"
    ELSE LET total_votes == wrap(proposal.votes_for + proposal.votes_against)
             quorum == wrap(state.total_token_supply * state.config.quorum_percentage) \div 100
         IN  IF proposal.votes_for <= proposal.votes_against \/ total_votes < quorum
             THEN "Defeated"
             ELSE IF proposal.execution_block = 0 THEN "Succeeded"
             ELSE "Queued"

create_proposal(state, sender, block_height, checks) ==
    LET proposal_id == state.proposal_count + 1
        start_block == block_height + 1
        end_block == wrap(start_block) + state.config.voting_period
    IN  IF checks /\ (overflows(proposal_id) \/ overflows(start_block) \/ overflows(end_block))
        THEN [outcome |-> "Panic", state |-> state]
        ELSE [outcome |-> "Ok",
              state |-> [state EXCEPT
                 !.proposal_count = wrap(proposal_id),
                 !.proposals = [i \in DOMAIN @ \cup {wrap(proposal_id)} |->
                                   IF i = wrap(proposal_id)
                                   THEN [NoProposal EXCEPT !.id = wrap(proposal_id),
                                                           !.proposer = sender,
                                                           !.start_block = wrap(start_block),
                                                           !.end_block = wrap(end_block)]
                                   ELSE @[i]],
                 !.votes = [i \in DOMAIN @ \cup {wrap(proposal_id)} |->
                               IF i = wrap(proposal_id) THEN {} ELSE @[i]]]]

\* The voters recorded for a proposal are kept as a set of Vote records.
cast_vote(state, sender, block_height, proposal_id, support, checks) ==
    IF proposal_id \notin DOMAIN state.proposals
    THEN [outcome |-> "NotFound", state |-> state]
    ELSE LET proposal == state.proposals[proposal_id]
             already_voted == \E v \in state.votes[proposal_id] : v.voter = sender
             tally == IF support THEN proposal.votes_for + VOTE_WEIGHT
                      ELSE proposal.votes_against + VOTE_WEIGHT
         IN  IF block_height < proposal.start_block \/ block_height > proposal.end_block
             THEN [outcome |-> "Proposal not active", state |-> state]
             ELSE IF already_voted THEN [outcome |-> "Already voted", state |-> state]
             ELSE IF checks /\ overflows(tally) THEN [outcome |-> "Panic", state |-> state]
             ELSE [outcome |-> "Ok",
                   state |-> [state EXCEPT
                      !.proposals[proposal_id] =
                          IF support THEN [@ EXCEPT !.votes_for = wrap(tally)]
                          ELSE [@ EXCEPT !.votes_against = wrap(tally)],
                      !.votes[proposal_id] = @ \cup
                          {[voter |-> sender, proposal_id |-> proposal_id, support |-> support,
                            weight |-> VOTE_WEIGHT, block_height |-> block_height]}]]

queue_proposal(state, block_height, proposal_id, checks) ==
    IF proposal_id \notin DOMAIN state.proposals
    THEN [outcome |-> "NotFound", state |-> state]
    ELSE IF get_proposal_status(state.proposals[proposal_id], state, block_height) # "Succeeded"
    THEN [outcome |-> "Proposal not succeeded", state |-> state]
    ELSE LET execution_block == block_height + state.config.execution_delay
         IN  IF checks /\ overflows(execution_block) THEN [outcome |-> "Panic", state |-> state]
             ELSE [outcome |-> "Ok",
                   state |-> [state EXCEPT
                      !.proposals[proposal_id].execution_block = wrap(execution_block),
                      !.proposals[proposal_id].status = "Queued"]]

execute_proposal(state, block_height, proposal_id) ==
    IF proposal_id \notin DOMAIN state.proposals
    THEN [outcome |-> "NotFound", state |-> state]
    ELSE IF get_proposal_status(state.proposals[proposal_id], state, block_height) # "Queued"
    THEN [outcome |-> "Proposal not queued", state |-> state]
    ELSE IF block_height < state.proposals[proposal_id].execution_block
    THEN [outcome |-> "Execution delay not passed", state |-> state]
    ELSE [outcome |-> "Ok",
          state |-> [state EXCEPT !.proposals[proposal_id].executed = TRUE,
                                  !.proposals[proposal_id].status = "Executed"]]

cancel_proposal(state, sender, proposal_id) ==
    IF proposal_id \notin DOMAIN state.proposals
    THEN [outcome |-> "NotFound", state |-> state]
    ELSE IF sender # state.proposals[proposal_id].proposer
    THEN [outcome |-> "Not proposer", state |-> state]
    ELSE IF state.proposals[proposal_id].executed
    THEN [outcome |-> "Already executed", state |-> state]
    ELSE [outcome |-> "Ok",
          state |-> [state EXCEPT !.proposals[proposal_id].canceled = TRUE,
                                  !.proposals[proposal_id].status = "Canceled"]]

\* The match of ManifoldDAO::execute on the message; the contract's own
\* address is DAO.
dao_dispatch(state, sender, block_height, msg, checks) ==
    CASE msg.kind = "Propose" -> create_proposal(state, sender, block_height, checks)
      [] msg.kind = "Vote" ->
            cast_vote(state, sender, block_height, msg.proposal_id, msg.support, checks)
      [] msg.kind = "Queue" -> queue_proposal(state, block_height, msg.proposal_id, checks)
      [] msg.kind = "Execute" -> execute_proposal(state, block_height, msg.proposal_id)
      [] msg.kind = "Cancel" -> cancel_proposal(state, sender, msg.proposal_id)
      [] msg.kind = "UpdateConfig" ->
            IF sender # DAO THEN [outcome |-> "Only DAO can update config", state |-> state]
            ELSE [outcome |-> "Ok", state |-> [state EXCEPT !.config = msg.config]]

\* ManifoldDAO::execute in a context of the given sender, block height and
\* gas limit: the outcome and the state in storage after the call.
dao_execute(d, sender, block_height, gas_limit, msg) ==
    IF consume(GasMeter_new(gas_limit), DAO_EXECUTE_GAS).result # "Ok"
    THEN [outcome |-> "OutOfGas", state |-> d.state]
    ELSE dao_dispatch(d.state, sender, block_height, msg, d.overflow_checks)

DaoIdle == dao = NoDao

\* ------------------------------------------------- components not yet in use
ObserverIdle == observer = [dr |-> DeadReckoning_new, agent |-> NoAgent, updates |-> 0]
SectorIdle == sect = NoSector
TokenIdle == token = NoToken
SimpleIdle == simple = NoSimple
MeterIdle == meter = NoMeter
OtherInit == ObserverIdle /\ SectorIdle /\ TokenIdle /\ SimpleIdle /\ MeterIdle /\ DaoIdle

\* ------------------------------------------------------------------- Init
\* Network::new / Simulation::new / SectorManager::new on every node.
Init ==
    /\ known_peers = [n \in Nodes |-> <<>>]
    /\ consensus_round = [n \in Nodes |-> 0]
    /\ pending_votes = [n \in Nodes |-> <<>>]
    /\ tick_count = [n \in Nodes |-> 0]
    /\ agents = [n \in Nodes |-> <<>>]
    /\ local_sectors = [n \in Nodes |-> {Sector0}]
    /\ sector_ownership = [n \in Nodes |-> [s \in {Sector0} |-> n]]
    /\ pending_handoffs = [n \in Nodes |-> <<>>]
    /\ proposals = {}
    /\ votes = {}
    /\ handoffs = {}
    /\ published = {}
    /\ proposed = {}
    /\ minted = {}
    /\ chk = [agree_count |-> 0, total_count |-> 0, required_peers |-> 1, result |-> NoTally]
    /\ responses = {}
    /\ pc = [n \in Nodes |-> "select"]
    /\ evo = NoEvolve
    /\ OtherInit

\* The node state of Init, for the scenarios of the other components.
IdleNodes ==
    /\ known_peers = [n \in Nodes |-> <<>>]
    /\ consensus_round = [n \in Nodes |-> 0]
    /\ pending_votes = [n \in Nodes |-> <<>>]
    /\ tick_count = [n \in Nodes |-> 0]
    /\ agents = [n \in Nodes |-> <<>>]
    /\ local_sectors = [n \in Nodes |-> {Sector0}]
    /\ sector_ownership = [n \in Nodes |-> [s \in {Sector0} |-> n]]
    /\ pending_handoffs = [n \in Nodes |-> <<>>]
    /\ proposals = {} /\ votes = {} /\ handoffs = {} /\ published = {} /\ proposed = {}
    /\ minted = {}
    /\ chk = [agree_count |-> 0, total_count |-> 0, required_peers |-> 1, result |-> NoTally]
    /\ responses = {}
    /\ pc = [n \in Nodes |-> "select"]
    /\ evo = NoEvolve

sim_vars == <<tick_count, agents, local_sectors, sector_ownership, pending_handoffs>>
cons_vars == <<known_peers, consensus_round, pending_votes, proposals, votes, published, proposed>>
node_vars == <<sim_vars, cons_vars, handoffs, responses, minted, pc, chk, evo>>
other_vars == <<observer, sect, token, simple, meter, dao>>

\* ---------------------------------------------------------------- actions
\* identify::Event::Received in handle_event.
Identify(n, peer_id) ==
    /\ peer_id # n
    /\ ~(peer_id \in SeqToSet(known_peers[n]))
    /\ known_peers' = [known_peers EXCEPT ![n] = Append(@, peer_id)]
    /\ UNCHANGED <<consensus_round, pending_votes, proposals, votes, published, proposed>>
    /\ UNCHANGED <<sim_vars, handoffs, minted, chk, responses, pc, evo, other_vars>>

\* SectorManager::claim_sector.
ClaimSector(n, sector_id, owner) ==
    /\ sector_ownership' = [sector_ownership EXCEPT ![n] =
           [s \in DOMAIN @ \cup {sector_id} |-> IF s = sector_id THEN owner ELSE @[s]]]
    /\ local_sectors' = [local_sectors EXCEPT ![n] = @ \cup {sector_id}]
    /\ UNCHANGED <<tick_count, agents, pending_handoffs, cons_vars, handoffs, minted, chk, responses, pc, evo, other_vars>>

\* handle_spawn_protocol / Simulation::spawn_agent: agent_id is
\* PeerId::random(), position is drawn from the rng.
SpawnRequest(n, cid, initial_energy, agent_id, position) ==
    /\ agent_id \notin minted
    /\ minted' = minted \cup {agent_id}
    /\ agents' = [agents EXCEPT ![n] =
           [id \in DOMAIN @ \cup {agent_id} |->
               IF id = agent_id THEN new_agent(agent_id, cid, initial_energy, position)
               ELSE @[id]]]
    /\ UNCHANGED <<tick_count, local_sectors, sector_ownership, pending_handoffs>>
    /\ UNCHANGED <<cons_vars, handoffs, chk, responses, pc, evo, other_vars>>

\* Simulation::check_sector_boundaries: the store and the handoffs it queues.
moved_agents(n) ==
    {id \in DOMAIN agents[n] :
        position_to_sector(agents[n][id].position) # agents[n][id].sector_id}

remote_agents(n) ==
    {id \in moved_agents(n) :
        ~is_local_sector(n, position_to_sector(agents[n][id].position))}

keep_remote_agents(n) == {}

handed_off_agents(n) == remote_agents(n)

keeps_old_sector(agent) == agent

reassign_local(agent) == [agent EXCEPT !.sector_id = position_to_sector(agent.position)]

store_after_boundaries(n) ==
    [id \in DOMAIN agents[n] \ handed_off_agents(n) |->
        IF id \in moved_agents(n) /\ id \notin remote_agents(n)
        THEN reassign_local(agents[n][id]) ELSE agents[n][id]]

queued_handoffs(n) ==
    LET order == sort_ids(CHOOSE o \in Orderings(remote_agents(n)) : TRUE)
    IN  [i \in 1..Len(order) |->
            prepare_handoff(agents[n][order[i]],
                            position_to_sector(agents[n][order[i]].position), n)]

\* Network::process_agent_handoffs: every queued handoff goes to every known peer.
sends_to_no_peer(n, queue) ==
    {[from |-> n, to |-> known_peers[n][j], handoff |-> queue[i]] :
        i \in 1..Len(queue), j \in {}}

sent_handoffs(n, queue) ==
    {[from |-> n, to |-> known_peers[n][j], handoff |-> queue[i]] :
        i \in 1..Len(queue), j \in 1..Len(known_peers[n])}

\* Network::initiate_consensus_round, after the tick moved the store to
\* `store` at tick `tick`.
new_proposal(n, tick, store) ==
    [round_id |-> consensus_round[n], tick |-> tick,
     state_hash |-> state_hash_of(tick, store, CHOOSE o \in Orderings(DOMAIN store) : TRUE),
     leader |-> n, timestamp |-> 0]

proposes_when_alone(n) == round_leader(known_peers[n], n, consensus_round[n]) = n

is_proposing(n) ==
    /\ known_peers[n] # <<>>
    /\ round_leader(known_peers[n], n, consensus_round[n]) = n

\* The tick branch of Network::run: Simulation::tick, process_agent_handoffs,
\* initiate_consensus_round.
Tick(n) ==
    /\ tick_count[n] < MaxTick
    /\ LET tick  == tick_count[n] + 1
           store == store_after_boundaries(n)
           queue == pending_handoffs[n] \o queued_handoffs(n)
           prop  == new_proposal(n, tick, store)
       IN  /\ tick_count' = [tick_count EXCEPT ![n] = tick]
           /\ agents' = [agents EXCEPT ![n] = store]
           /\ pending_handoffs' = [pending_handoffs EXCEPT ![n] = <<>>]
           /\ handoffs' = handoffs \cup sent_handoffs(n, queue)
           /\ IF is_proposing(n)
              THEN /\ proposals' = proposals \cup
                         {[from |-> n, to |-> known_peers[n][j], proposal |-> prop] :
                             j \in 1..Len(known_peers[n])}
                   /\ proposed' = proposed \cup {prop}
              ELSE UNCHANGED <<proposals, proposed>>
    /\ UNCHANGED <<local_sectors, sector_ownership, known_peers, consensus_round,
                   pending_votes, votes, published, minted, chk, responses, pc, evo, other_vars>>

\* The StateVote built in handle_consensus_protocol for a proposal.
vote_echoing_proposal(n, proposal) ==
    [round_id |-> proposal.round_id, voter |-> n,
     agree |-> (calculate_state_hash(n) = proposal.state_hash),
     voter_hash |-> proposal.state_hash]

new_vote(n, proposal) ==
    LET our_hash == calculate_state_hash(n)
        agree == (our_hash = proposal.state_hash)
    IN  [round_id |-> proposal.round_id, voter |-> n, agree |-> agree, voter_hash |-> our_hash]

\* handle_consensus_protocol, Message::Request: vote on a proposal.
HandleProposal(n, m) ==
    /\ m \in proposals /\ m.to = n
    /\ votes' = votes \cup
           {[to |-> m.from, req_tick |-> m.proposal.tick, vote |-> new_vote(n, m.proposal)]}
    /\ proposals' = proposals \ {m}
    /\ UNCHANGED <<known_peers, consensus_round, pending_votes, published, proposed>>
    /\ UNCHANGED <<sim_vars, handoffs, minted, chk, responses, pc, evo, other_vars>>

\* The votes held for a round after one more is pushed.
votes_with(n, vote) ==
    Append(IF vote.round_id \in DOMAIN pending_votes[n]
           THEN pending_votes[n][vote.round_id] ELSE <<>>, vote)

tally(n, vote) ==
    LET vs == votes_with(n, vote)
    IN  ConsensusResult_check(Cardinality({i \in 1..Len(vs) : vs[i].agree}), Len(vs),
                              Len(known_peers[n]) + 1)

stuck_round(round, result) == IF result.kind = "Achieved" THEN round + 1 ELSE round

round_after(round, result) ==
    IF result.kind \in {"Achieved", "Failed"} THEN round + 1 ELSE round

commits_on_any_terminal(result) == result.kind \in {"Achieved", "Failed"}

publishes_commit(result) == result.kind = "Achieved"

\* handle_consensus_protocol, Message::Response: collect a vote and tally.
HandleVote(n, m) ==
    /\ m \in votes /\ m.to = n
    /\ LET vote   == m.vote
           result == tally(n, vote)
           commit == [round_id |-> vote.round_id, tick |-> tick_count[n],
                      state_hash |-> vote.voter_hash, vote_count |-> Len(votes_with(n, vote))]
       IN  /\ pending_votes' = [pending_votes EXCEPT ![n] =
                  IF result.kind = "Pending"
                  THEN [r \in DOMAIN @ \cup {vote.round_id} |->
                           IF r = vote.round_id THEN votes_with(n, vote) ELSE @[r]]
                  ELSE [r \in DOMAIN @ \ {vote.round_id} |-> @[r]]]
           /\ published' = IF publishes_commit(result)
                           THEN published \cup {[node |-> n, node_round |-> consensus_round[n],
                                                 commit |-> commit]}
                           ELSE published
           /\ consensus_round' = [consensus_round EXCEPT ![n] = round_after(@, result)]
    /\ votes' = votes \ {m}
    /\ UNCHANGED <<known_peers, proposals, proposed>>
    /\ UNCHANGED <<sim_vars, handoffs, minted, chk, responses, pc, evo, other_vars>>

\* HashMap::insert under the agent's identifier.
store_with(store, agent) ==
    [id \in DOMAIN store \cup {agent.id} |-> IF id = agent.id THEN agent ELSE store[id]]

\* Simulation::receive_agent_handoff: the sector check, the agent as stored
\* and the store it leaves.
accepts_any_handoff(n, handoff) == TRUE

accepts_handoff(n, handoff) == is_local_sector(n, handoff.to_sector)

received_as_carried(handoff) == handoff.agent

received_agent(handoff) == [handoff.agent EXCEPT !.sector_id = handoff.to_sector]

store_after_handoff(n, handoff) ==
    IF accepts_handoff(n, handoff)
    THEN store_with(agents[n], received_agent(handoff))
    ELSE agents[n]

\* The HandoffResponse built in handle_handoff_protocol; the message is held
\* as its words, the sector number as its text.
handoff_response(n, handoff) ==
    IF accepts_handoff(n, handoff)
    THEN [success |-> TRUE, message |-> <<"Agent", "accepted">>]
    ELSE [success |-> FALSE,
          message |-> <<"Handoff", "failed:", "Cannot", "accept", "handoff", "for", "sector",
                        ToString(handoff.to_sector), "-", "not", "managed", "by", "this",
                        "node">>]

\* handle_handoff_protocol, Message::Request.
HandleHandoff(n, m) ==
    /\ m \in handoffs /\ m.to = n
    /\ handoffs' = handoffs \ {m}
    /\ agents' = [agents EXCEPT ![n] = store_after_handoff(n, m.handoff)]
    /\ responses' = responses \cup
           {[from |-> n, to |-> m.from, request |-> m.handoff,
             response |-> handoff_response(n, m.handoff)]}
    /\ UNCHANGED <<tick_count, local_sectors, sector_ownership, pending_handoffs>>
    /\ UNCHANGED <<cons_vars, minted, chk, pc, evo, other_vars>>

\* handle_handoff_protocol, Message::Response: the outcome is logged only.
reinsert_on_reject(n, r) ==
    IF r.response.success THEN agents[n] ELSE store_with(agents[n], r.request.agent)

store_after_response(n, r) == agents[n]

HandleHandoffResponse(n, r) ==
    /\ r \in responses /\ r.to = n
    /\ responses' = responses \ {r}
    /\ agents' = [agents EXCEPT ![n] = store_after_response(n, r)]
    /\ UNCHANGED <<tick_count, local_sectors, sector_ownership, pending_handoffs>>
    /\ UNCHANGED <<cons_vars, handoffs, minted, chk, pc, evo, other_vars>>

\* A handoff request that never reaches its peer: the failure event falls
\* into the catch-all arm of handle_event.
LoseHandoff(m) ==
    /\ m \in handoffs
    /\ handoffs' = handoffs \ {m}
    /\ UNCHANGED <<sim_vars, cons_vars, responses, minted, chk, pc, evo, other_vars>>

\* A handoff request sent by a peer outside the modelled nodes.
external_agent(agent_id, position) ==
    [new_agent(agent_id, CHOOSE c \in Cids : TRUE, CHOOSE e \in Energies : TRUE, position)
        EXCEPT !.genome.parameters = <<1>>]

ExternalHandoff(n, agent_id, position, to_sector) ==
    /\ agent_id \notin minted
    /\ handoffs' = handoffs \cup
           {[from |-> 0, to |-> n,
             handoff |-> prepare_handoff(external_agent(agent_id, position), to_sector, 0)]}
    /\ minted' = minted \cup {agent_id}
    /\ UNCHANGED <<sim_vars, cons_vars, chk, responses, pc, evo, other_vars>>

\* ------------------------------------------------------- specifications
\* The vote protocol among the active nodes, from construction.
NextVote ==
    \/ \E n \in VoteNodes, p \in VotePeers : Identify(n, p)
    \/ \E n \in VoteNodes : Tick(n)
    \/ \E n \in VoteNodes, m \in proposals : HandleProposal(n, m)
    \/ \E n \in VoteNodes, m \in votes : HandleVote(n, m)

SpecVote == Init /\ [][NextVote]_vars
\* The vote protocol with node 1 having identified every other node; the
\* last node is never scheduled (its votes never arrive).
InitQuorum ==
    /\ known_peers = [n \in Nodes |-> IF n = 1 THEN [i \in 1..(NumNodes - 1) |-> i + 1] ELSE <<>>]
    /\ consensus_round = [n \in Nodes |-> 0]
    /\ pending_votes = [n \in Nodes |-> <<>>]
    /\ tick_count = [n \in Nodes |-> 0]
    /\ agents = [n \in Nodes |-> <<>>]
    /\ local_sectors = [n \in Nodes |-> {Sector0}]
    /\ sector_ownership = [n \in Nodes |-> [s \in {Sector0} |-> n]]
    /\ pending_handoffs = [n \in Nodes |-> <<>>]
    /\ proposals = {} /\ votes = {} /\ handoffs = {} /\ published = {} /\ proposed = {}
    /\ minted = {}
    /\ chk = [agree_count |-> 0, total_count |-> 0, required_peers |-> 1, result |-> NoTally]
    /\ responses = {}
    /\ pc = [n \in Nodes |-> "select"]
    /\ evo = NoEvolve
    /\ OtherInit

NextQuorum ==
    \/ \E n \in QuorumNodes : tick_count[n] < MaxQuorumTick /\ Tick(n)
    \/ \E n \in QuorumNodes, m \in proposals : HandleProposal(n, m)
    \/ \E n \in QuorumNodes, m \in votes : HandleVote(n, m)

SpecQuorum == InitQuorum /\ [][NextQuorum]_vars

\* Spawns, sector claims and handoffs, with the last simulation node having
\* identified the others (it is not the leader of round 0, so it proposes
\* nothing); every agent enters the network once.
InitSim ==
    /\ known_peers = [n \in Nodes |-> IF n = NumSim THEN [i \in 1..(NumSim - 1) |-> i] ELSE <<>>]
    /\ consensus_round = [n \in Nodes |-> 0]
    /\ pending_votes = [n \in Nodes |-> <<>>]
    /\ tick_count = [n \in Nodes |-> 0]
    /\ agents = [n \in Nodes |-> <<>>]
    /\ local_sectors = [n \in Nodes |-> {Sector0}]
    /\ sector_ownership = [n \in Nodes |-> [s \in {Sector0} |-> n]]
    /\ pending_handoffs = [n \in Nodes |-> <<>>]
    /\ proposals = {} /\ votes = {} /\ handoffs = {} /\ published = {} /\ proposed = {}
    /\ minted = {}
    /\ chk = [agree_count |-> 0, total_count |-> 0, required_peers |-> 1, result |-> NoTally]
    /\ responses = {}
    /\ pc = [n \in Nodes |-> "select"]
    /\ evo = NoEvolve
    /\ OtherInit

NextSim ==
    \/ \E n \in SimNodes, s \in ClaimableSectors : ClaimSector(n, s, n)
    \/ \E n \in SimNodes, c \in Cids, e \in Energies, a \in AgentIds, pos \in SpawnPositions :
          SpawnRequest(n, c, e, a, pos)
    \/ \E n \in SimNodes, a \in AgentIds, pos \in SpawnPositions, s \in {Sector0, SectorWest} :
          ExternalHandoff(n, a, pos, s)
    \/ \E n \in SimNodes : tick_count[n] < MaxSimTick /\ Tick(n)
    \/ \E n \in SimNodes, m \in handoffs : HandleHandoff(n, m)

SpecSim == InitSim /\ [][NextSim]_vars

\* The handoff protocol between two nodes: node NumHandoff has identified
\* node 1 and is not the leader of round 0; peers outside the modelled nodes
\* send handoff requests of any content, requests may be lost, and responses
\* are delivered.
HandoffNodes == 1..NumHandoff

InitHandoff ==
    /\ known_peers = [n \in Nodes |-> IF n = NumHandoff THEN <<1>> ELSE <<>>]
    /\ consensus_round = [n \in Nodes |-> 0]
    /\ pending_votes = [n \in Nodes |-> <<>>]
    /\ tick_count = [n \in Nodes |-> 0]
    /\ agents = [n \in Nodes |-> <<>>]
    /\ local_sectors = [n \in Nodes |-> {Sector0}]
    /\ sector_ownership = [n \in Nodes |-> [s \in {Sector0} |-> n]]
    /\ pending_handoffs = [n \in Nodes |-> <<>>]
    /\ proposals = {} /\ votes = {} /\ handoffs = {} /\ published = {} /\ proposed = {}
    /\ minted = {}
    /\ chk = [agree_count |-> 0, total_count |-> 0, required_peers |-> 1, result |-> NoTally]
    /\ responses = {}
    /\ pc = [n \in Nodes |-> "select"]
    /\ evo = NoEvolve
    /\ OtherInit

\* A handoff request from a peer outside the modelled nodes; nothing
\* constrains the identifier, position or destination sector it carries.
PeerHandoff(n, agent_id, position, to_sector) ==
    /\ Cardinality(handoffs) + Cardinality(responses) < MaxInFlight
    /\ handoffs' = handoffs \cup
           {[from |-> 0, to |-> n,
             handoff |-> prepare_handoff(external_agent(agent_id, position), to_sector, 0)]}
    /\ minted' = minted \cup {agent_id}
    /\ UNCHANGED <<sim_vars, cons_vars, chk, responses, pc, evo, other_vars>>

NextHandoff ==
    \/ \E n \in HandoffNodes, s \in ClaimableSectors : ClaimSector(n, s, n)
    \/ \E n \in HandoffNodes, a \in AgentIds, pos \in SpawnPositions, s \in {Sector0, SectorWest} :
          PeerHandoff(n, a, pos, s)
    \/ \E n \in HandoffNodes : tick_count[n] < MaxSimTick /\ Tick(n)
    \/ \E n \in HandoffNodes, m \in handoffs : HandleHandoff(n, m)
    \/ \E n \in HandoffNodes, r \in responses : HandleHandoffResponse(n, r)
    \/ \E m \in handoffs : LoseHandoff(m)

SpecHandoff == InitHandoff /\ [][NextHandoff]_vars

\* Network::run statement by statement: select! takes one ready branch and
\* runs its body to the end before polling again. pc is "select" while the
\* node waits in select!, "handoffs" after simulation.tick() and "consensus"
\* after process_agent_handoffs().
LoopNodes == 1..NumLoop

event_at_any_await(n) == TRUE

awaits_event(n) == pc[n] = "select"

\* self.simulation.tick()
TickSimulation(n) ==
    /\ pc[n] = "select"
    /\ tick_count[n] < MaxLoopTick
    /\ tick_count' = [tick_count EXCEPT ![n] = @ + 1]
    /\ agents' = [agents EXCEPT ![n] = store_after_boundaries(n)]
    /\ pending_handoffs' = [pending_handoffs EXCEPT ![n] = @ \o queued_handoffs(n)]
    /\ pc' = [pc EXCEPT ![n] = "handoffs"]
    /\ UNCHANGED <<local_sectors, sector_ownership, cons_vars, handoffs, responses, minted,
                   chk, evo, other_vars>>

\* self.process_agent_handoffs().await
TickHandoffs(n) ==
    /\ pc[n] = "handoffs"
    /\ handoffs' = handoffs \cup sent_handoffs(n, pending_handoffs[n])
    /\ pending_handoffs' = [pending_handoffs EXCEPT ![n] = <<>>]
    /\ pc' = [pc EXCEPT ![n] = "consensus"]
    /\ UNCHANGED <<tick_count, agents, local_sectors, sector_ownership, cons_vars, responses,
                   minted, chk, evo, other_vars>>

\* self.initiate_consensus_round().await
TickConsensus(n) ==
    /\ pc[n] = "consensus"
    /\ LET prop == new_proposal(n, tick_count[n], agents[n])
       IN  IF is_proposing(n)
           THEN /\ proposals' = proposals \cup
                      {[from |-> n, to |-> known_peers[n][j], proposal |-> prop] :
                          j \in 1..Len(known_peers[n])}
                /\ proposed' = proposed \cup {prop}
           ELSE UNCHANGED <<proposals, proposed>>
    /\ pc' = [pc EXCEPT ![n] = "select"]
    /\ UNCHANGED <<sim_vars, known_peers, consensus_round, pending_votes, votes, published,
                   handoffs, responses, minted, chk, evo, other_vars>>

InitLoop ==
    /\ known_peers = [n \in Nodes |-> IF n = NumLoop THEN <<1>> ELSE <<>>]
    /\ consensus_round = [n \in Nodes |-> 0]
    /\ pending_votes = [n \in Nodes |-> <<>>]
    /\ tick_count = [n \in Nodes |-> 0]
    /\ agents = [n \in Nodes |-> <<>>]
    /\ local_sectors = [n \in Nodes |-> {Sector0}]
    /\ sector_ownership = [n \in Nodes |-> [s \in {Sector0} |-> n]]
    /\ pending_handoffs = [n \in Nodes |-> <<>>]
    /\ proposals = {} /\ votes = {} /\ handoffs = {} /\ published = {} /\ proposed = {}
    /\ minted = {}
    /\ chk = [agree_count |-> 0, total_count |-> 0, required_peers |-> 1, result |-> NoTally]
    /\ responses = {}
    /\ pc = [n \in Nodes |-> "select"]
    /\ evo = NoEvolve
    /\ OtherInit

NextLoop ==
    \/ \E n \in LoopNodes : TickSimulation(n)
    \/ \E n \in LoopNodes : TickHandoffs(n)
    \/ \E n \in LoopNodes : TickConsensus(n)
    \/ \E n \in LoopNodes, p \in LoopNodes : awaits_event(n) /\ Identify(n, p)
    \/ \E n \in LoopNodes, c \in Cids, e \in Energies, a \in AgentIds, pos \in SpawnPositions :
          awaits_event(n) /\ SpawnRequest(n, c, e, a, pos)
    \/ \E n \in LoopNodes, a \in AgentIds, pos \in SpawnPositions :
          ExternalHandoff(n, a, pos, Sector0)
    \/ \E n \in LoopNodes, m \in handoffs : awaits_event(n) /\ HandleHandoff(n, m)
    \/ \E n \in LoopNodes, r \in responses : awaits_event(n) /\ HandleHandoffResponse(n, r)
    \/ \E n \in LoopNodes, m \in proposals : awaits_event(n) /\ HandleProposal(n, m)
    \/ \E n \in LoopNodes, m \in votes : awaits_event(n) /\ HandleVote(n, m)

SpecLoop == InitLoop /\ [][NextLoop]_vars

\* Two fresh nodes fed the same inbound events in lock step.
BothTick ==
    /\ \A n \in DetNodes : tick_count[n] < MaxTick
    /\ tick_count' = [n \in Nodes |-> IF n \in DetNodes THEN tick_count[n] + 1 ELSE tick_count[n]]
    /\ agents' = [n \in Nodes |-> IF n \in DetNodes THEN store_after_boundaries(n) ELSE agents[n]]
    /\ handoffs' = handoffs \cup
           UNION {sent_handoffs(n, pending_handoffs[n] \o queued_handoffs(n)) : n \in DetNodes}
    /\ \A n \in DetNodes : ~is_proposing(n)
    /\ UNCHANGED <<pending_handoffs, local_sectors, sector_ownership, cons_vars, minted, chk, responses, pc, evo, other_vars>>

BothSpawn(cid, initial_energy, id1, pos1, id2, pos2) ==
    /\ id1 # id2 /\ id1 \notin minted /\ id2 \notin minted
    /\ minted' = minted \cup {id1, id2}
    /\ agents' = [agents EXCEPT
           ![1] = store_with(@, new_agent(id1, cid, initial_energy, pos1)),
           ![2] = store_with(@, new_agent(id2, cid, initial_energy, pos2))]
    /\ UNCHANGED <<tick_count, local_sectors, sector_ownership, pending_handoffs>>
    /\ UNCHANGED <<cons_vars, handoffs, chk, responses, pc, evo, other_vars>>

BothHandoff(agent_id, position, to_sector) ==
    /\ agent_id \notin minted
    /\ minted' = minted \cup {agent_id}
    /\ LET handoff == prepare_handoff(external_agent(agent_id, position), to_sector, 0)
       IN  /\ agents' = [n \in Nodes |->
                  IF n \in DetNodes THEN store_after_handoff(n, handoff) ELSE agents[n]]
           /\ responses' = responses \cup
                  {[from |-> n, to |-> 0, request |-> handoff,
                    response |-> handoff_response(n, handoff)] : n \in DetNodes}
    /\ UNCHANGED <<tick_count, local_sectors, sector_ownership, pending_handoffs>>
    /\ UNCHANGED <<cons_vars, handoffs, chk, pc, evo, other_vars>>

NextDet ==
    \/ BothTick
    \/ \E c \in Cids, e \in DetEnergies, a1, a2 \in AgentIds, p1, p2 \in DetPositions :
          BothSpawn(c, e, a1, p1, a2, p2)
    \/ \E a \in AgentIds, pos \in DetPositions, s \in {Sector0, SectorWest} :
          BothHandoff(a, pos, s)

SpecDet == Init /\ [][NextDet]_vars

\* ConsensusResult::check applied to every input up to MaxCheck.
InitCheck ==
    /\ known_peers = [n \in Nodes |-> <<>>]
    /\ consensus_round = [n \in Nodes |-> 0]
    /\ pending_votes = [n \in Nodes |-> <<>>]
    /\ tick_count = [n \in Nodes |-> 0]
    /\ agents = [n \in Nodes |-> <<>>]
    /\ local_sectors = [n \in Nodes |-> {Sector0}]
    /\ sector_ownership = [n \in Nodes |-> [s \in {Sector0} |-> n]]
    /\ pending_handoffs = [n \in Nodes |-> <<>>]
    /\ proposals = {} /\ votes = {} /\ handoffs = {} /\ published = {} /\ proposed = {}
    /\ minted = {}
    /\ responses = {}
    /\ pc = [n \in Nodes |-> "select"]
    /\ evo = NoEvolve
    /\ OtherInit
    /\ \E a \in 0..MaxCheck, t \in 0..MaxCheck, r \in 1..MaxCheck :
          /\ a <= t
          /\ chk = [agree_count |-> a, total_count |-> t, required_peers |-> r, result |-> NoTally]

ApplyCheck ==
    /\ chk.result = NoTally
    /\ chk' = [chk EXCEPT !.result =
                  ConsensusResult_check(chk.agree_count, chk.total_count, chk.required_peers)]
    /\ UNCHANGED <<sim_vars, cons_vars, handoffs, minted, responses, pc, evo, other_vars>>

SpecCheck == InitCheck /\ [][ApplyCheck]_vars

\* evolve_offspring applied to parents with every parameter vector up to
\* MaxParams bytes and a mutation rate of 0, 1/100 or 1.
ParamBytes == {0, 255}
ParamVectors == UNION {[1..l -> ParamBytes] : l \in 0..MaxParams}
MutationRates == {0, RATE_UNIT \div 100, RATE_UNIT}

InitEvolve ==
    /\ known_peers = [n \in Nodes |-> <<>>]
    /\ consensus_round = [n \in Nodes |-> 0]
    /\ pending_votes = [n \in Nodes |-> <<>>]
    /\ tick_count = [n \in Nodes |-> 0]
    /\ agents = [n \in Nodes |-> <<>>]
    /\ local_sectors = [n \in Nodes |-> {Sector0}]
    /\ sector_ownership = [n \in Nodes |-> [s \in {Sector0} |-> n]]
    /\ pending_handoffs = [n \in Nodes |-> <<>>]
    /\ proposals = {} /\ votes = {} /\ handoffs = {} /\ published = {} /\ proposed = {}
    /\ minted = {}
    /\ chk = [agree_count |-> 0, total_count |-> 0, required_peers |-> 1, result |-> NoTally]
    /\ responses = {}
    /\ pc = [n \in Nodes |-> "select"]
    /\ \E pa \in ParamVectors, pb \in ParamVectors, rate \in MutationRates :
          evo = [parent_a |-> [genome |-> [cid |-> <<81>>, parameters |-> pa]],
                 parent_b |-> [genome |-> [cid |-> <<82>>, parameters |-> pb]],
                 mutation_rate |-> rate, chosen |-> <<>>, offspring |-> NoGenome,
                 applied |-> FALSE]
    /\ OtherInit

ApplyEvolve ==
    /\ evo.applied = FALSE
    /\ \E o \in evolve_offspring(evo.parent_a, evo.parent_b, evo.mutation_rate) :
          evo' = [evo EXCEPT !.chosen = o.chosen, !.offspring = o.genome, !.applied = TRUE]
    /\ UNCHANGED <<sim_vars, cons_vars, handoffs, responses, minted, pc, chk, other_vars>>

SpecEvolve == InitEvolve /\ [][ApplyEvolve]_vars

\* ------------------------------------------------- state hash of two stores
\* Two nodes fill their stores from spawn requests and from inbound handoffs
\* whose agents carry any genome, and tick.
HashGenomes == {[cid |-> <<81>>, parameters |-> <<1>>], [cid |-> <<81, 1>>, parameters |-> <<>>]}

carried_agent(agent_id, genome, position) ==
    [new_agent(agent_id, genome.cid, CHOOSE e \in Energies : TRUE, position)
        EXCEPT !.genome = genome]

InboundHandoff(n, agent_id, genome) ==
    /\ Cardinality(handoffs) + Cardinality(responses) < MaxInFlight
    /\ handoffs' = handoffs \cup
           {[from |-> 0, to |-> n,
             handoff |-> prepare_handoff(carried_agent(agent_id, genome, Origin), Sector0, 0)]}
    /\ UNCHANGED <<sim_vars, cons_vars, minted, chk, responses, pc, evo, other_vars>>

NextHash ==
    \/ \E n \in DetNodes, a \in AgentIds, g \in HashGenomes : InboundHandoff(n, a, g)
    \/ \E n \in DetNodes, m \in handoffs : HandleHandoff(n, m)
    \/ \E n \in DetNodes, c \in Cids, e \in Energies, a \in AgentIds, pos \in SpawnPositions :
          SpawnRequest(n, c, e, a, pos)
    \/ \E n \in DetNodes : tick_count[n] < MaxSimTick /\ Tick(n)

SpecHash == Init /\ [][NextHash]_vars

\* ------------------------------------------------------ sector of a position
\* position_to_sector and Agent::calculate_sector applied to one position,
\* each coordinate drawn from cell boundaries on both sides of zero.
SectorCoordinates == {-2500, -101, -100, -1, 0, 99, 100, 2500}

InitSector ==
    /\ IdleNodes /\ ObserverIdle /\ TokenIdle /\ SimpleIdle /\ MeterIdle /\ DaoIdle
    /\ \E x \in SectorCoordinates, y \in SectorCoordinates, z \in SectorCoordinates :
          sect = [NoSector EXCEPT !.position = <<x, y, z>>]

ApplySector ==
    /\ ~sect.applied
    /\ sect' = [sect EXCEPT
           !.applied = TRUE,
           !.manager_id = position_to_sector(sect.position),
           !.agent_id = calculate_sector(new_agent(<<65>>, <<81>>, 100, sect.position), SECTOR_SIZE)]
    /\ UNCHANGED <<node_vars, dao, observer, token, simple, meter>>

SpecSector == InitSector /\ [][ApplySector]_vars

\* ------------------------------------------------------------- gas metering
\* One GasMeter of any limit, charged any amounts.
InitGas ==
    /\ IdleNodes /\ ObserverIdle /\ SectorIdle /\ TokenIdle /\ SimpleIdle /\ DaoIdle
    /\ \E limit \in U64 : meter = [NoMeter EXCEPT !.gas = GasMeter_new(limit)]

Consume(amount) ==
    /\ LET r == consume(meter.gas, amount)
       IN  meter' = [gas |-> r.gas, amount |-> amount, result |-> r.result]
    /\ UNCHANGED <<node_vars, dao, observer, sect, token, simple>>

NextGas == \E amount \in U64 : Consume(amount)

SpecGas == InitGas /\ [][NextGas]_vars

\* --------------------------------------------------------- governance token
\* One token contract, deployed by the DAO with any of the configurations,
\* then called by any address with any message, in a build with or without
\* overflow checks.
MaxTokenCalls == 2
TokenAmounts == {1, 2, U64_MAX}
TokenConfigs == {[max_supply |-> m, initial_supply |-> i] : m \in {2, U64_MAX - 1}, i \in {1, 3}}
TokenGasLimits == {0, EXECUTE_GAS, EXECUTE_GAS + MINT_GAS}

InitToken ==
    /\ IdleNodes /\ ObserverIdle /\ SectorIdle /\ SimpleIdle /\ MeterIdle /\ DaoIdle
    /\ \E checks \in BOOLEAN : token = [NoToken EXCEPT !.overflow_checks = checks]

\* GovernanceToken::instantiate, at deployment.
TokenInstantiate(sender, gas_limit, config) ==
    /\ ~token.initialized
    /\ IF consume(GasMeter_new(gas_limit), INSTANTIATE_GAS).result = "Ok"
       THEN token' = [token EXCEPT !.initialized = TRUE,
                                   !.state = TokenState_new(config, sender),
                                   !.kind = "Instantiate", !.sender = sender,
                                   !.amount = config.initial_supply, !.outcome = "Ok"]
       ELSE token' = [token EXCEPT !.kind = "Instantiate", !.sender = sender,
                                   !.amount = config.initial_supply, !.outcome = "OutOfGas"]
    /\ UNCHANGED <<node_vars, dao, observer, sect, simple, meter>>

TokenExecute(sender, gas_limit, msg) ==
    /\ token.calls < MaxTokenCalls
    /\ LET r == token_execute(token, sender, gas_limit, msg)
       IN  token' = [token EXCEPT !.state = r.state, !.kind = msg.kind, !.sender = sender,
                                  !.amount = msg.amount, !.outcome = r.outcome,
                                  !.calls = @ + 1]
    /\ UNCHANGED <<node_vars, dao, observer, sect, simple, meter>>

MintMsg(recipient, amount) == [kind |-> "Mint", recipient |-> recipient, amount |-> amount]

NextToken ==
    \/ \E g \in {0, INSTANTIATE_GAS}, c \in TokenConfigs : TokenInstantiate(DAO, g, c)
    \/ \E sender \in Addresses, g \in TokenGasLimits, r \in Addresses, a \in TokenAmounts :
          TokenExecute(sender, g, [kind |-> "Transfer", recipient |-> r, amount |-> a])
    \/ \E sender \in Addresses, g \in TokenGasLimits, sp \in Addresses, a \in TokenAmounts :
          TokenExecute(sender, g, [kind |-> "Approve", spender |-> sp, amount |-> a])
    \/ \E sender \in Addresses, g \in TokenGasLimits, o \in Addresses, r \in Addresses,
          a \in TokenAmounts :
          TokenExecute(sender, g, [kind |-> "TransferFrom", owner |-> o, recipient |-> r,
                                   amount |-> a])
    \/ \E sender \in Addresses, g \in TokenGasLimits, r \in Addresses, a \in TokenAmounts :
          TokenExecute(sender, g, MintMsg(r, a))
    \/ \E sender \in Addresses, g \in TokenGasLimits, a \in TokenAmounts :
          TokenExecute(sender, g, [kind |-> "Burn", amount |-> a])
    \/ \E sender \in Addresses, g \in TokenGasLimits, n \in Nodes_reputed, a \in TokenAmounts :
          TokenExecute(sender, g, [kind |-> "UpdateReputation", node |-> n, amount |-> a])
    \/ \E sender \in Addresses, g \in TokenGasLimits, ag \in Agents_credited, a \in TokenAmounts :
          TokenExecute(sender, g, [kind |-> "RecordContribution", agent_id |-> ag, amount |-> a])

SpecToken == InitToken /\ [][NextToken]_vars

\* ------------------------------------------------------------- simple token
\* One simple token, deployed by any address with any initial supply, then
\* called by any address with any message.
MaxSimpleCalls == 2
SimpleSupplies == {3, U64_MAX}

InitSimple ==
    /\ IdleNodes /\ ObserverIdle /\ SectorIdle /\ TokenIdle /\ MeterIdle /\ DaoIdle
    /\ \E checks \in BOOLEAN : simple = [NoSimple EXCEPT !.overflow_checks = checks]

\* SimpleTokenTemplate::instantiate, at deployment.
SimpleInstantiate(sender, initial_supply) ==
    /\ ~simple.instantiated
    /\ simple' = [simple EXCEPT !.instantiated = TRUE,
                                !.total_supply = initial_supply,
                                !.balances[sender] = initial_supply,
                                !.kind = "Instantiate", !.sender = sender,
                                !.amount = initial_supply, !.outcome = "Ok"]
    /\ UNCHANGED <<node_vars, dao, observer, sect, token, meter>>

SimpleExecute(sender, msg) ==
    /\ simple.instantiated
    /\ simple.calls < MaxSimpleCalls
    /\ LET r == simple_execute(simple, sender, msg)
       IN  simple' = [r.st EXCEPT !.kind = msg.kind, !.sender = sender, !.amount = msg.amount,
                                  !.outcome = r.outcome, !.calls = @ + 1]
    /\ UNCHANGED <<node_vars, dao, observer, sect, token, meter>>

TransferMsg(to, amount) == [kind |-> "Transfer", to |-> to, amount |-> amount]

NextSimple ==
    \/ \E sender \in Addresses, supply \in SimpleSupplies : SimpleInstantiate(sender, supply)
    \/ \E sender \in Addresses, to \in Addresses, a \in TokenAmounts :
          SimpleExecute(sender, TransferMsg(to, a))
    \/ \E sender \in Addresses, sp \in Addresses, a \in TokenAmounts :
          SimpleExecute(sender, [kind |-> "Approve", spender |-> sp, amount |-> a])
    \/ \E sender \in Addresses, from \in Addresses, to \in Addresses, a \in TokenAmounts :
          SimpleExecute(sender, [kind |-> "TransferFrom", from |-> from, to |-> to, amount |-> a])

SpecSimple == InitSimple /\ [][NextSimple]_vars

\* Migration between two nodes running Network::run: node NumLoop has
\* identified node 1, nodes claim sectors, agents are spawned
\* or arrive by handoff, and every request sent is delivered.
NextMigrate ==
    \/ \E n \in LoopNodes, s \in ClaimableSectors : awaits_event(n) /\ ClaimSector(n, s, n)
    \/ \E n \in LoopNodes, c \in Cids, e \in Energies, a \in AgentIds, pos \in SpawnPositions :
          awaits_event(n) /\ SpawnRequest(n, c, e, a, pos)
    \/ \E n \in LoopNodes, a \in AgentIds, pos \in SpawnPositions, s \in {Sector0, SectorWest} :
          ExternalHandoff(n, a, pos, s)
    \/ \E n \in LoopNodes : TickSimulation(n)
    \/ \E n \in LoopNodes : TickHandoffs(n)
    \/ \E n \in LoopNodes : TickConsensus(n)
    \/ \E n \in LoopNodes, m \in handoffs : awaits_event(n) /\ HandleHandoff(n, m)

SpecMigrate == InitLoop /\ [][NextMigrate]_vars

\* Network::run never stops inside the body of the tick branch, and select!
\* polls its branches in random order, so a request that stays deliverable
\* is taken.
MigrateFairness ==
    /\ \A n \in LoopNodes : WF_vars(TickHandoffs(n))
    /\ \A n \in LoopNodes : WF_vars(TickConsensus(n))
    /\ \A n \in LoopNodes : SF_vars(\E m \in handoffs : awaits_event(n) /\ HandleHandoff(n, m))

\* The same migration with one tick for each node.
NextMigrateOnce ==
    \/ \E n \in LoopNodes, s \in ClaimableSectors : awaits_event(n) /\ ClaimSector(n, s, n)
    \/ \E n \in LoopNodes, c \in Cids, e \in Energies, a \in AgentIds, pos \in SpawnPositions :
          awaits_event(n) /\ SpawnRequest(n, c, e, a, pos)
    \/ \E n \in LoopNodes, a \in AgentIds, pos \in SpawnPositions, s \in {Sector0, SectorWest} :
          ExternalHandoff(n, a, pos, s)
    \/ \E n \in LoopNodes : tick_count[n] < MaxSimTick /\ TickSimulation(n)
    \/ \E n \in LoopNodes : TickHandoffs(n)
    \/ \E n \in LoopNodes : TickConsensus(n)
    \/ \E n \in LoopNodes, m \in handoffs : awaits_event(n) /\ HandleHandoff(n, m)

SpecMigrateFair == InitLoop /\ [][NextMigrateOnce]_vars /\ MigrateFairness

\* The vote protocol among nodes that have all identified each other, with
\* every proposal and vote delivered; the nodes that do not lead round 0
\* take fewer ticks.
MeshNodes == 1..(NumVoters + 1)

InitMesh ==
    /\ known_peers = [n \in Nodes |->
          IF n \in MeshNodes THEN sort_peers(CHOOSE o \in Orderings(MeshNodes \ {n}) : TRUE)
          ELSE <<>>]
    /\ consensus_round = [n \in Nodes |-> 0]
    /\ pending_votes = [n \in Nodes |-> <<>>]
    /\ tick_count = [n \in Nodes |-> 0]
    /\ agents = [n \in Nodes |-> <<>>]
    /\ local_sectors = [n \in Nodes |-> {Sector0}]
    /\ sector_ownership = [n \in Nodes |-> [s \in {Sector0} |-> n]]
    /\ pending_handoffs = [n \in Nodes |-> <<>>]
    /\ proposals = {} /\ votes = {} /\ handoffs = {} /\ published = {} /\ proposed = {}
    /\ minted = {}
    /\ chk = [agree_count |-> 0, total_count |-> 0, required_peers |-> 1, result |-> NoTally]
    /\ responses = {}
    /\ pc = [n \in Nodes |-> "select"]
    /\ evo = NoEvolve
    /\ OtherInit

NextMesh ==
    \/ \E n \in MeshNodes : (n # 1 => tick_count[n] < MaxSimTick) /\ Tick(n)
    \/ \E n \in MeshNodes, m \in proposals : HandleProposal(n, m)
    \/ \E n \in MeshNodes, m \in votes : HandleVote(n, m)

SpecMesh == InitMesh /\ [][NextMesh]_vars

\* SectorManager::claim_sector called on each node with any sector and any
\* owner.
NextClaim ==
    \E n \in SimNodes, s \in {Sector0, SectorWest}, owner \in SimNodes : ClaimSector(n, s, owner)

SpecClaim == Init /\ [][NextClaim]_vars

\* ------------------------------------------------------------ ManifoldDAO
\* A DAO taking proposals, votes, Queue, Execute, Cancel and UpdateConfig
\* messages at non-decreasing block heights.
MaxProposals == 1
DaoDelays == {0, 2, U64_MAX}
DaoConfigs == {[voting_period |-> 1, execution_delay |-> d, quorum_percentage |-> 10] :
                  d \in DaoDelays}
DaoGasLimits == {0, DAO_EXECUTE_GAS}

InitDao ==
    /\ IdleNodes /\ ObserverIdle /\ SectorIdle /\ TokenIdle /\ SimpleIdle /\ MeterIdle
    /\ \E checks \in BOOLEAN : dao = [NoDao EXCEPT !.overflow_checks = checks]

\* ManifoldDAO::instantiate, at deployment.
DaoInstantiate(gas_limit, config) ==
    /\ ~dao.initialized
    /\ IF consume(GasMeter_new(gas_limit), DAO_INSTANTIATE_GAS).result = "Ok"
       THEN dao' = [dao EXCEPT !.initialized = TRUE, !.state = DAOState_new(config)]
       ELSE dao' = dao
    /\ UNCHANGED <<node_vars, observer, sect, token, simple, meter>>

\* What a successful Queue or Execute leaves in the record of events: the
\* block of the call, the status of the proposal before the call and the
\* delay configured at the call.
dao_event(d, block_height, msg) ==
    [kind |-> msg.kind, id |-> msg.proposal_id, block |-> block_height,
     status |-> get_proposal_status(d.state.proposals[msg.proposal_id], d.state, block_height),
     delay |-> d.state.config.execution_delay]

\* One call of ManifoldDAO::execute at a block height not below the last.
DaoExecute(sender, block_height, gas_limit, msg) ==
    /\ dao.initialized
    /\ block_height >= dao.block_height
    /\ msg.kind = "Propose" => dao.state.proposal_count < MaxProposals
    /\ LET r == dao_execute(dao, sender, block_height, gas_limit, msg)
       IN  dao' = [dao EXCEPT !.state = r.state, !.block_height = block_height,
                              !.events = IF r.outcome = "Ok" /\ msg.kind \in {"Queue", "Execute"}
                                         THEN @ \cup {dao_event(dao, block_height, msg)}
                                         ELSE @]
    /\ UNCHANGED <<node_vars, observer, sect, token, simple, meter>>

QueueMsg(proposal_id) == [kind |-> "Queue", proposal_id |-> proposal_id]

NextDao ==
    \/ \E g \in {0, DAO_INSTANTIATE_GAS}, c \in DaoConfigs : DaoInstantiate(g, c)
    \/ \E sender \in Addresses, h \in U64, g \in DaoGasLimits :
          DaoExecute(sender, h, g, [kind |-> "Propose"])
    \/ \E sender \in Addresses, h \in U64, g \in DaoGasLimits, id \in 1..MaxProposals,
          support \in BOOLEAN :
          DaoExecute(sender, h, g, [kind |-> "Vote", proposal_id |-> id, support |-> support])
    \/ \E sender \in Addresses, h \in U64, g \in DaoGasLimits, id \in 1..MaxProposals :
          DaoExecute(sender, h, g, QueueMsg(id))
    \/ \E sender \in Addresses, h \in U64, g \in DaoGasLimits, id \in 1..MaxProposals :
          DaoExecute(sender, h, g, [kind |-> "Execute", proposal_id |-> id])
    \/ \E sender \in Addresses, h \in U64, g \in DaoGasLimits, id \in 1..MaxProposals :
          DaoExecute(sender, h, g, [kind |-> "Cancel", proposal_id |-> id])
    \/ \E sender \in Addresses, h \in U64, g \in DaoGasLimits, c \in DaoConfigs :
          DaoExecute(sender, h, g, [kind |-> "UpdateConfig", config |-> c])

SpecDao == InitDao /\ [][NextDao]_vars

\* ------------------------------------------------ observer: dead reckoning
\* One engine and one observed agent; the arguments and the elapsed time
\* are drawn from small sets.
MaxUpdates == 2
MaxElapsed == 2
F32Args == {NaN, F32(-10 * FIXED), F32(-(FIXED \div 2)), F32_ZERO, F32(FIXED \div 2),
            F32_ONE, F32((3 * FIXED) \div 2), F32(10 * FIXED)}
ObsPositions == {Vec3(0, 0, 0), Vec3(20, 0, 0)}
ObsVelocities == {Vec3_ZERO, Vec3(10, 0, 0)}

InitReckon ==
    /\ IdleNodes /\ SectorIdle /\ TokenIdle /\ SimpleIdle /\ MeterIdle /\ DaoIdle
    /\ \E dr \in {DeadReckoning_new} \cup {with_params(b, a, t) : b, a, t \in F32Args} :
          observer = [dr |-> dr, agent |-> NoAgent, updates |-> 0]

SetBlendFactor(factor) ==
    /\ observer' = [observer EXCEPT !.dr = set_blend_factor(@, factor)]
    /\ UNCHANGED <<node_vars, dao, sect, token, simple, meter>>

SetSmoothingAlpha(alpha) ==
    /\ observer' = [observer EXCEPT !.dr = set_smoothing_alpha(@, alpha)]
    /\ UNCHANGED <<node_vars, dao, sect, token, simple, meter>>

SetErrorThreshold(threshold) ==
    /\ observer' = [observer EXCEPT !.dr = set_error_threshold(@, threshold)]
    /\ UNCHANGED <<node_vars, dao, sect, token, simple, meter>>

\* DeadReckoning::create_agent.
CreateAgent(position, velocity, acceleration) ==
    /\ ~observer.agent.exists
    /\ observer' = [observer EXCEPT !.agent = PredictedAgent_new(position, velocity, acceleration)]
    /\ UNCHANGED <<node_vars, dao, sect, token, simple, meter>>

\* DeadReckoning::predict_position, dt seconds after the last update.
PredictPosition(dt) ==
    /\ observer.agent.exists
    /\ observer' = [observer EXCEPT !.agent = predict(@, dt)]
    /\ UNCHANGED <<node_vars, dao, sect, token, simple, meter>>

UpdateAgent(position, velocity, acceleration) ==
    /\ observer.agent.exists
    /\ observer.updates < MaxUpdates
    /\ observer' = [observer EXCEPT
           !.agent = update_agent(observer.dr, @, position, velocity, acceleration),
           !.updates = @ + 1]
    /\ UNCHANGED <<node_vars, dao, sect, token, simple, meter>>

NextReckon ==
    \/ \E x \in F32Args : SetBlendFactor(x)
    \/ \E x \in F32Args : SetSmoothingAlpha(x)
    \/ \E x \in F32Args : SetErrorThreshold(x)
    \/ \E p \in ObsPositions, v \in ObsVelocities : CreateAgent(p, v, Vec3_ZERO)
    \/ \E dt \in 0..MaxElapsed : PredictPosition(dt)
    \/ \E p \in ObsPositions, v \in ObsVelocities : UpdateAgent(p, v, Vec3_ZERO)

SpecReckon == InitReckon /\ [][NextReckon]_vars


\* ------------------------------------------------------------------ claims
\* The vote responses a step delivered to node n.
handled_votes(n) == {m \in votes : m.to = n /\ m \notin votes'}

\* C1: a node's consensus_round never decreases; it changes only in a step
\* that tallies a vote to Achieved or Failed, and then by exactly one.
C1_RoundAdvancesByOneOnTerminal ==
    [][\A n \in Nodes :
          /\ consensus_round'[n] \in {consensus_round[n], consensus_round[n] + 1}
          /\ (consensus_round'[n] = consensus_round[n] + 1)
                <=> (\E m \in handled_votes(n) :
                        tally(n, m.vote).kind \in {"Achieved", "Failed"})]_vars

C1_Witness ==
    \E n \in Nodes : consensus_round[n] = 1 /\ tick_count[n] >= 2

\* C8: one tick period after a leader proposed round r (its next tick
\* fires), round r has retired at the leader, whether or not votes arrived.
C8_RoundRetiresWithinOneTick ==
    [][\A n \in Nodes :
          tick_count'[n] # tick_count[n]
             => \A p \in proposed : p.leader = n => p.round_id < consensus_round[n]]_vars

participants(n) == SeqToSet(known_peers[n]) \cup {n}

C3_LeaderIsRoundRobin ==
    \A n \in Nodes : known_peers[n] # <<>> =>
        LET P == participants(n)
            N == Len(known_peers[n]) + 1
        IN  /\ \A r \in 0..MaxRoundCheck :
                  LET l == round_leader(known_peers[n], n, r)
                  IN  l \in P /\ Cardinality({q \in P : q < l}) = r % N
            /\ \A m \in Nodes : (known_peers[m] # <<>> /\ participants(m) = P) =>
                  \A r \in 0..MaxRoundCheck :
                      round_leader(known_peers[m], m, r) = round_leader(known_peers[n], n, r)
            /\ \A r0 \in 0..MaxRoundCheck :
                  {round_leader(known_peers[n], n, r) : r \in r0..(r0 + N - 1)} = P

C3_Witness ==
    /\ \E m, n \in Nodes :
          /\ m # n /\ Len(known_peers[m]) = 2 /\ participants(m) = participants(n)
          /\ known_peers[m][1] > known_peers[m][2]
    /\ proposed # {}
\* C10: every published commit carries a state hash that its node proposed
\* for the committed round.
C10_CommitCarriesProposedHash ==
    \A c \in published :
        \E p \in proposed :
            /\ p.leader = c.node
            /\ p.round_id = c.commit.round_id
            /\ p.state_hash = c.commit.state_hash

\* C7: nodes fed the same inbound events hold the same tick counter and the
\* same agent store (and so the same state hash).
C7_SameEventsSameState ==
    /\ tick_count[1] = tick_count[2]
    /\ agents[1] = agents[2]
    /\ calculate_state_hash(1) = calculate_state_hash(2)

\* C2: with the result of check(agree, total, N) recorded: Pending iff
\* total < N; otherwise Achieved iff 3 * agree > 2 * N, else Failed; the
\* counts are carried in the result.
C2_CheckThreshold ==
    chk.result # NoTally =>
        LET a == chk.agree_count
            t == chk.total_count
            N == chk.required_peers
            k == chk.result.kind
        IN  /\ k \in {"Pending", "Achieved", "Failed"}
            /\ (k = "Pending") <=> (t < N)
            /\ (k = "Achieved") <=> (t >= N /\ 3 * a > 2 * N)
            /\ (k = "Failed") <=> (t >= N /\ 3 * a <= 2 * N)
            /\ k # "Pending" => chk.result.agree_count = a /\ chk.result.total_count = t
            /\ (t = N /\ a = (2 * N) \div 3) => k = "Failed"
            /\ (t = N /\ a = (2 * N) \div 3 + 1) => k = "Achieved"

C2_Witness ==
    /\ chk.result # NoTally
    /\ chk.required_peers = 4 /\ chk.total_count = 4 /\ chk.agree_count = 2
    /\ chk.result.kind = "Failed"
C5_SectorMatchesAfterTick ==
    [][\A n \in Nodes :
          tick_count'[n] # tick_count[n] =>
              \A id \in DOMAIN agents'[n] :
                  position_to_sector(agents'[n][id].position) = agents'[n][id].sector_id]_vars

C5_Witness ==
    \E n \in Nodes :
        /\ tick_count[n] = 1
        /\ \E id \in DOMAIN agents[n] : agents[n][id].genome.parameters = <<1>>
        /\ \E m \in handoffs : m.from = n

\* C6: the digest does not depend on the order in which the store yields its
\* keys, and nodes whose tick counters agree and whose stores agree on the
\* hashed fields compute the same digest, whatever their peer id, sector
\* table and handoff queue.
hashed_view(store) ==
    [id \in DOMAIN store |->
        [energy |-> store[id].energy, position |-> store[id].position,
         cid |-> store[id].genome.cid, parameters |-> store[id].genome.parameters]]

C6_HashDeterministic ==
    /\ \A n \in Nodes : \A o1, o2 \in Orderings(DOMAIN agents[n]) :
          state_hash_of(tick_count[n], agents[n], o1) = state_hash_of(tick_count[n], agents[n], o2)
    /\ \A m, n \in Nodes :
          (tick_count[m] = tick_count[n] /\ hashed_view(agents[m]) = hashed_view(agents[n]))
             => calculate_state_hash(m) = calculate_state_hash(n)

C6_Witness ==
    \E m, n \in Nodes :
        /\ m # n /\ tick_count[m] = tick_count[n] /\ agents[m] = agents[n]
        /\ Cardinality(DOMAIN agents[m]) = 2
        /\ local_sectors[m] # local_sectors[NumSim]

\* C11: a vote response for a round below the receiving node's current
\* round is dropped: the step that handles it leaves the node's pending
\* votes and consensus_round as they were and publishes no commit.
C11_StaleVoteDropped ==
    [][\A n \in Nodes : \A m \in handled_votes(n) :
          m.vote.round_id < consensus_round[n] =>
              /\ pending_votes'[n] = pending_votes[n]
              /\ consensus_round'[n] = consensus_round[n]
              /\ published' = published]_vars

\* C12: while a node's known_peers is empty, each of its ticks increments
\* its tick counter by one, and no step sends a proposal from it, publishes a
\* commit of it or changes its consensus_round.
C12_LoneNodeSkipsRounds ==
    [][\A n \in Nodes : known_peers[n] = <<>> =>
          /\ tick_count'[n] \in {tick_count[n], tick_count[n] + 1}
          /\ \A m \in proposals' \ proposals : m.from # n
          /\ \A p \in proposed' \ proposed : p.leader # n
          /\ \A c \in published' \ published : c.node # n
          /\ consensus_round'[n] = consensus_round[n]]_vars

C12_Witness ==
    \E n \in Nodes :
        /\ known_peers[n] = <<>> /\ tick_count[n] >= 2 /\ consensus_round[n] = 0
        /\ \E p \in proposed : p.leader # n

\* C13: every vote a node sends in reply to a proposal echoes the
\* proposal's round_id, names the replying node as voter, carries the state
\* hash the node computes when the proposal arrives, and agrees iff that hash
\* equals the proposed hash; a disagreeing vote carries the voter's own hash.
C13_VoteContents ==
    [][\A v \in votes' \ votes :
          \E m \in proposals \ proposals' :
              LET our_hash == state_hash_of(tick_count[m.to], agents[m.to],
                                            CHOOSE o \in Orderings(DOMAIN agents[m.to]) : TRUE)
              IN  /\ v.to = m.from
                  /\ v.vote.round_id = m.proposal.round_id
                  /\ v.vote.voter = m.to
                  /\ v.vote.voter_hash = our_hash
                  /\ v.vote.agree <=> (our_hash = m.proposal.state_hash)
                  /\ ~v.vote.agree => v.vote.voter_hash # m.proposal.state_hash]_vars

C13_Witness ==
    /\ \E v \in votes : v.vote.agree
    /\ \E v \in votes : ~v.vote.agree /\ v.vote.voter_hash = le_bytes(0, 8)

\* words occurs in message as consecutive words.
contains_words(message, words) ==
    \E i \in 1..(Len(message) - Len(words) + 1) :
        SubSeq(message, i, i + Len(words) - 1) = words

\* The responses that node n may have added for request m in a step.
response_to(n, m) ==
    {r \in responses' :
        r.from = n /\ r.to = m.from /\ r.request = m.handoff /\ responses' = responses \cup {r}}

\* C14: a handoff request whose to_sector is not local to the receiver is
\* answered with success = FALSE and a message containing "not managed", and
\* the receiver's store is unchanged.
C14_NonLocalHandoffRejected ==
    [][\A n \in Nodes : \A m \in handoffs :
          (HandleHandoff(n, m) /\ ~is_local_sector(n, m.handoff.to_sector)) =>
              /\ agents'[n] = agents[n]
              /\ \E r \in response_to(n, m) :
                    /\ r.response.success = FALSE
                    /\ contains_words(r.response.message, <<"not", "managed">>)]_vars

C14_Witness ==
    \E r \in responses :
        /\ r.response.success = FALSE
        /\ r.from \in Nodes /\ agents[r.from] # <<>>
        /\ r.request.agent.id \notin DOMAIN agents[r.from]

\* C15: a handoff request whose agent identifier is already in the
\* receiver's store is answered with success = FALSE and leaves the store,
\* the record held under that identifier included, unchanged.
C15_DuplicateHandoffRejected ==
    [][\A n \in Nodes : \A m \in handoffs :
          (HandleHandoff(n, m) /\ m.handoff.agent.id \in DOMAIN agents[n]) =>
              /\ agents'[n] = agents[n]
              /\ \E r \in response_to(n, m) : r.response.success = FALSE]_vars

\* C16: a handoff request whose to_sector is local to the receiver is
\* answered with success = TRUE; afterwards the store holds the carried
\* agent under its identifier with sector_id = to_sector and its other
\* fields as carried, and every other agent of the store is unchanged.
C16_LocalHandoffAccepted ==
    [][\A n \in Nodes : \A m \in handoffs :
          (HandleHandoff(n, m) /\ is_local_sector(n, m.handoff.to_sector)) =>
              LET id == m.handoff.agent.id
              IN  /\ \E r \in response_to(n, m) : r.response.success = TRUE
                  /\ DOMAIN agents'[n] = DOMAIN agents[n] \cup {id}
                  /\ agents'[n][id] = [m.handoff.agent EXCEPT !.sector_id = m.handoff.to_sector]
                  /\ \A other \in DOMAIN agents[n] \ {id} :
                        agents'[n][other] = agents[n][other]]_vars

C16_Witness ==
    \E n \in Nodes :
        /\ Cardinality(DOMAIN agents[n]) = 2
        /\ \E id \in DOMAIN agents[n] :
              /\ agents[n][id].sector_id # position_to_sector(agents[n][id].position)
              /\ \E r \in responses :
                    r.from = n /\ r.request.agent.id = id /\ r.response.success = TRUE

\* C17: a step in which a node transmits a handoff for an agent leaves the
\* agent out of that node's store (also when the node has no peer to send
\* to), and an identifier enters a node's store only by a spawn or by an
\* inbound handoff request, never by a response or a loss.
C17_SenderNeverKeepsOrRestores ==
    [][\A n \in Nodes :
          /\ \A m \in handoffs' \ handoffs :
                m.from = n => m.handoff.agent.id \notin DOMAIN agents'[n]
          /\ tick_count'[n] # tick_count[n] =>
                \A id \in remote_agents(n) : id \notin DOMAIN agents'[n]
          /\ \A id \in DOMAIN agents'[n] \ DOMAIN agents[n] :
                \/ id \notin minted
                \/ \E m \in handoffs : HandleHandoff(n, m) /\ m.handoff.agent.id = id]_vars

C17_Witness ==
    \E r \in responses :
        /\ r.to \in Nodes /\ r.response.success = FALSE
        /\ r.request.agent.id \notin DOMAIN agents[r.to]
        /\ tick_count[r.to] = 1

\* C18: from the start of a node's tick (simulation.tick()) to the end of
\* its handoff flush and proposal dispatch, no inbound event of that node is
\* processed: every message in flight to it stays in flight, its peer list,
\* votes and round are untouched and nothing enters its store; the phases
\* after simulation.tick() leave the store and the tick counter alone.
C18_TickPhasesAtomic ==
    [][\A n \in Nodes : (pc[n] # "select" \/ pc'[n] # "select") =>
          /\ {m \in handoffs : m.to = n} \subseteq handoffs'
          /\ {m \in proposals : m.to = n} \subseteq proposals'
          /\ {m \in votes : m.to = n} \subseteq votes'
          /\ {r \in responses : r.to = n} \subseteq responses'
          /\ known_peers'[n] = known_peers[n]
          /\ pending_votes'[n] = pending_votes[n]
          /\ consensus_round'[n] = consensus_round[n]
          /\ DOMAIN agents'[n] \subseteq DOMAIN agents[n]
          /\ pc[n] # "select" => (agents'[n] = agents[n] /\ tick_count'[n] = tick_count[n])]_vars

C18_Witness ==
    \E n \in Nodes :
        /\ pc[n] = "consensus"
        /\ \E m \in handoffs : m.to = n
        /\ \E m \in proposals : m.to = n

\* C19: with mutation rate 0 and both parents' parameters non-empty, the
\* offspring is pA[0..k] followed by pB[k..] for the crossover point k drawn,
\* 0 <= k < min(|pA|, |pB|), with parent A's cid, whatever the two lengths.
C19_CrossoverIsPrefixAThenSuffixB ==
    LET pA == evo.parent_a.genome.parameters
        pB == evo.parent_b.genome.parameters
    IN  (evo.applied /\ evo.mutation_rate = 0 /\ pA # <<>> /\ pB # <<>>) =>
            \E k \in 0..(min_len(pA, pB) - 1) :
                /\ evo.chosen = <<k>>
                /\ evo.offspring.parameters = SubSeq(pA, 1, k) \o SubSeq(pB, k + 1, Len(pB))
                /\ evo.offspring.cid = evo.parent_a.genome.cid

\* C20: the offspring is parent A's genome (cid and parameters) whenever
\* either parent's parameters are empty, at any mutation rate, and whenever
\* the mutation rate is 0 and the two parameter vectors are equal.
C20_CloneOfParentA ==
    LET pA == evo.parent_a.genome.parameters
        pB == evo.parent_b.genome.parameters
    IN  (evo.applied /\ (pA = <<>> \/ pB = <<>> \/ (evo.mutation_rate = 0 /\ pA = pB))) =>
            evo.offspring = evo.parent_a.genome

C20_Witness ==
    /\ evo.applied /\ evo.mutation_rate = 0
    /\ evo.parent_a.genome.parameters = evo.parent_b.genome.parameters
    /\ evo.parent_a.genome.parameters = <<255, 0>>
    /\ evo.chosen = <<1>>

\* C21: when an authoritative update arrives at position p' and the distance
\* from the current predicted position to p' exceeds the snap threshold, the
\* predicted position after update_agent is exactly p'.
C21_SnapWhenFarFromArrival ==
    [][\A p \in ObsPositions, v \in ObsVelocities :
          (UpdateAgent(p, v, Vec3_ZERO)
             /\ distance_exceeds(observer.agent.predicted_position, p,
                                 observer.dr.max_error_threshold))
          => observer'.agent.predicted_position = p]_vars

\* C22: the engine's blend_factor and smoothing_alpha always lie in [0, 1]
\* and its max_error_threshold is never negative, whatever arguments the
\* constructor and the setters were given.
in_unit_interval(x) == ~x.nan /\ 0 <= x.v /\ x.v <= FIXED
C22_ParametersInRange ==
    /\ in_unit_interval(observer.dr.blend_factor)
    /\ in_unit_interval(observer.dr.smoothing_alpha)
    /\ ~observer.dr.max_error_threshold.nan /\ observer.dr.max_error_threshold.v >= 0

\* C23: the sector of a position is (gx * 73856093) XOR (gy * 19349663) XOR
\* (gz * 83492791) as a 64-bit unsigned value, where each g is the cell
\* index rounded toward minus infinity (g * s <= coordinate < (g + 1) * s),
\* and Agent::calculate_sector returns the same identifier.
GridCells == -26..26
in_cell(coordinate, g) ==
    g * SECTOR_SIZE <= coordinate /\ coordinate < (g + 1) * SECTOR_SIZE
C24_NoZeroEnergyAfterTick ==
    [][\A n \in DetNodes :
          tick_count'[n] = tick_count[n] + 1 =>
              \A id \in DOMAIN agents'[n] : agents'[n][id].energy # 0]_vars

\* C25: for parents whose parameter vectors are non-empty, of equal length
\* and different in every byte, the offspring has that length, parent A's
\* cid, and parameters that are neither all of A's bytes nor all of B's.
C25_OffspringMixesBothParents ==
    LET pA == evo.parent_a.genome.parameters
        pB == evo.parent_b.genome.parameters
    IN  (evo.applied /\ pA # <<>> /\ Len(pA) = Len(pB)
           /\ \A i \in 1..Len(pA) : pA[i] # pB[i]) =>
            /\ Len(evo.offspring.parameters) = Len(pA)
            /\ evo.offspring.parameters # pA
            /\ evo.offspring.parameters # pB
            /\ evo.offspring.cid = evo.parent_a.genome.cid

\* C26: two simulation states that differ in the tick counter, in the set of
\* agents, or in an agent's energy, position, cid or parameters feed
\* different byte sequences into the hasher.
C26_DistinctStatesHashDifferently ==
    \A m, n \in DetNodes :
        (tick_count[m] # tick_count[n] \/ hashed_view(agents[m]) # hashed_view(agents[n]))
            => calculate_state_hash(m) # calculate_state_hash(n)

\* C30: a gas meter with limit L never has consumed above L and remaining()
\* is L - consumed; a consume(amount) that would take the total above L, or
\* past the top of the word, returns OutOfGas and leaves consumed unchanged;
\* every other consume succeeds and adds exactly amount.
C30_GasNeverExceedsLimit ==
    [][\A amount \in U64 :
          Consume(amount) =>
              /\ meter'.gas.limit = meter.gas.limit
              /\ meter'.gas.consumed <= meter'.gas.limit
              /\ remaining(meter'.gas) = meter'.gas.limit - meter'.gas.consumed
              /\ IF meter.gas.consumed + amount > meter.gas.limit
                 THEN meter'.result = "OutOfGas" /\ meter'.gas.consumed = meter.gas.consumed
                 ELSE meter'.result = "Ok"
                      /\ meter'.gas.consumed = meter.gas.consumed + amount]_vars
C30_Witness ==
    /\ meter.result = "OutOfGas"
    /\ meter.gas.consumed > 0
    /\ meter.gas.consumed + meter.amount > U64_MAX

\* C27: a Mint whose sender is not the DAO is rejected and leaves the
\* balances, total_supply and total_minted as they were.
C27_MintOnlyByDao ==
    [][\A sender \in Addresses \ {DAO}, g \in TokenGasLimits, r \in Addresses, a \in TokenAmounts :
          TokenExecute(sender, g, MintMsg(r, a)) =>
              /\ token'.outcome # "Ok"
              /\ token'.state.balances = token.state.balances
              /\ token'.state.total_supply = token.state.total_supply
              /\ token'.state.total_minted = token.state.total_minted]_vars

\* C28: once the token is instantiated, total_minted and total_supply never
\* exceed config.max_supply, whatever messages are executed.
C28_SupplyNeverExceedsMax ==
    token.initialized =>
        /\ token.state.total_minted <= token.state.config.max_supply
        /\ token.state.total_supply <= token.state.config.max_supply

\* C29: every successful Transfer of the simple token, to any recipient and
\* to the sender's own address too, leaves the sum of all balances equal to
\* total_supply.
RECURSIVE sum_over(_, _)
sum_over(f, S) ==
    IF S = {} THEN 0 ELSE LET a == CHOOSE x \in S : TRUE IN f[a] + sum_over(f, S \ {a})

C29_TransferConservesTotal ==
    [][\A sender \in Addresses, to \in Addresses, a \in TokenAmounts :
          (SimpleExecute(sender, TransferMsg(to, a)) /\ simple'.outcome = "Ok")
          => sum_over(simple'.balances, Addresses) = simple'.total_supply]_vars


\* C31: a proposal is executed only after a Queue that found it Succeeded
\* at some block q and at a block not below q plus the execution delay of
\* that Queue; no executed proposal is canceled.
C31_ExecutionIsTimeLocked ==
    /\ \A e \in dao.events : e.kind = "Execute" =>
          /\ e.status = "Queued"
          /\ \E q \in dao.events :
                /\ q.kind = "Queue" /\ q.id = e.id /\ q.status = "Succeeded"
                /\ q.block <= e.block
                /\ e.block >= q.block + q.delay
    /\ \A id \in DOMAIN dao.state.proposals :
          dao.state.proposals[id].executed =>
             /\ ~dao.state.proposals[id].canceled
             /\ \E e \in dao.events : e.kind = "Execute" /\ e.id = id


\* C32: the boundary check of a tick leaves an agent whose recomputed sector
\* equals its sector_id untouched and queues nothing for it; an agent whose
\* new sector is local stays with sector_id set to the new sector and
\* nothing queued; any other agent leaves the store and exactly one handoff
\* is queued for it, carrying its record, its old sector_id as from_sector,
\* the new sector as to_sector and the local node as source_node.
enqueued_by_tick(n) ==
    {i \in (Len(pending_handoffs[n]) + 1)..Len(pending_handoffs'[n]) : TRUE}

C32_BoundaryCheck ==
    [][\A n \in LoopNodes : TickSimulation(n) =>
          /\ SubSeq(pending_handoffs'[n], 1, Len(pending_handoffs[n])) = pending_handoffs[n]
          /\ \A i \in enqueued_by_tick(n) :
                pending_handoffs'[n][i].agent.id \in DOMAIN agents[n]
          /\ \A id \in DOMAIN agents[n] :
                LET agent == agents[n][id]
                    new_sector == position_to_sector(agent.position)
                    queued == {i \in enqueued_by_tick(n) :
                                  pending_handoffs'[n][i].agent.id = id}
                IN  IF new_sector = agent.sector_id
                    THEN id \in DOMAIN agents'[n] /\ agents'[n][id] = agent /\ queued = {}
                    ELSE IF is_local_sector(n, new_sector)
                    THEN /\ id \in DOMAIN agents'[n]
                         /\ agents'[n][id] = [agent EXCEPT !.sector_id = new_sector]
                         /\ queued = {}
                    ELSE /\ id \notin DOMAIN agents'[n]
                         /\ Cardinality(queued) = 1
                         /\ \A i \in queued :
                               pending_handoffs'[n][i] =
                                  [agent |-> agent, from_sector |-> agent.sector_id,
                                   to_sector |-> new_sector, timestamp |-> 0,
                                   source_node |-> n]]_vars

\* A node that has just run the boundary check: a handoff is queued for an
\* agent it removed while another agent stays in a claimed sector.
C32_Witness ==
    \E n \in LoopNodes :
        /\ pc[n] = "handoffs" /\ pending_handoffs[n] # <<>>
        /\ \E id \in DOMAIN agents[n] :
              /\ agents[n][id].sector_id = position_to_sector(agents[n][id].position)
              /\ agents[n][id].sector_id # Sector0


\* C33: when some known peer of the sender treats the destination sector as
\* local and every request is delivered, an agent removed by the boundary
\* check of a tick is eventually in that peer's store.
C33_HandoffReachesOwner ==
    \A n \in LoopNodes, p \in LoopNodes, a \in AgentIds :
        (/\ pc[n] = "handoffs"
         /\ p \in SeqToSet(known_peers[n])
         /\ \E i \in DOMAIN pending_handoffs[n] :
               /\ pending_handoffs[n][i].agent.id = a
               /\ is_local_sector(p, pending_handoffs[n][i].to_sector))
        ~> (a \in DOMAIN agents[p])

\* A peer holds an agent that arrived from the node that identified it.
C33_Witness ==
    \E p \in LoopNodes, a \in AgentIds, r \in responses :
        /\ a \in DOMAIN agents[p]
        /\ r.from = p /\ r.to \in LoopNodes /\ r.request.agent.id = a /\ r.response.success


\* C34: in every tally each voter is counted at most once: the number of
\* votes tallied for a round exceeds neither the number of distinct voters
\* among them nor required_peers.
C34_EachVoterCountedOnce ==
    [][\A n \in Nodes, m \in votes : HandleVote(n, m) =>
          LET vs == votes_with(n, m.vote)
          IN  /\ Len(vs) <= Cardinality({vs[i].voter : i \in 1..Len(vs)})
              /\ Len(vs) <= Len(known_peers[n]) + 1]_vars

\* C35: a leader that holds, after a vote, the vote of every known peer for
\* the round of that vote has a terminal tally.
C35_AllPeersVotedIsTerminal ==
    [][\A n \in Nodes, m \in votes : HandleVote(n, m) =>
          LET vs == votes_with(n, m.vote)
          IN  (SeqToSet(known_peers[n]) \subseteq {vs[i].voter : i \in 1..Len(vs)})
                 => tally(n, m.vote).kind \in {"Achieved", "Failed"}]_vars


\* C36: among nodes that all know each other, in every reachable state some
\* node is the leader of its own current round.
C36_SomeNodeLeadsItsRound ==
    \E n \in MeshNodes : round_leader(known_peers[n], n, consensus_round[n]) = n


\* C37: a leader reaches at most one terminal outcome for a round_id and
\* publishes at most one StateCommit for it: no two commits of a node carry
\* the same round_id, and the terminal outcomes of a node (one for each
\* increment of its consensus_round) are no more than the round_ids it has
\* proposed.
C37_OneOutcomePerRound ==
    /\ \A c1, c2 \in published :
          (c1.node = c2.node /\ c1.commit.round_id = c2.commit.round_id) => c1 = c2
    /\ \A n \in MeshNodes :
          consensus_round[n] <= Cardinality({p.round_id : p \in {q \in proposed : q.leader = n}})


\* C38: right after a tick every agent in the node's store has a sector_id
\* the node treats as local.
C38_StoreHoldsLocalSectorsAfterTick ==
    [][\A n \in LoopNodes : TickSimulation(n) =>
          \A id \in DOMAIN agents'[n] : agents'[n][id].sector_id \in local_sectors'[n]]_vars


\* C39: a node treats a sector as local exactly when the owner it records
\* for the sector is the node itself.
C39_LocalIffOwnedByLocalNode ==
    \A n \in SimNodes, s \in {Sector0, SectorWest} :
        is_local_sector(n, s) <=> get_sector_owner(n, s) = n


\* C40: after instantiation and any sequence of token messages, failed or
\* not, the sum of all balances equals total_supply.
C40_BalancesSumToTotalSupply ==
    token.initialized => sum_over(token.state.balances, Addresses) = token.state.total_supply

====
